---- MODULE Spec2Model ----
(***************************************************************************)
(* WebRx expression compiler (src/src/Core/VirtualChildNodes.ts, module    *)
(* wx.compiler): path getters and setters, runtime hooks, the sandbox      *)
(* guard and the caller-supplied expression cache.                         *)
(***************************************************************************)
EXTENDS Integers, Sequences, FiniteSets, TLC

VARIABLES
    heap,           \* the objects reachable from the scope: object id -> its
                    \* fields, a set of <<key, value>>
    getterFnCache,  \* the process-wide cache of compiled path getters (set of paths)
    compiled,       \* the last compile call: its source and what it returned or threw
    ev,             \* the last evaluation of the compiled expression: its arguments,
                    \* the heap before it, its outcome, the accesses it made and
                    \* whether an evaluation before it was given hooks
    cache,          \* the caller's expression cache: source -> compiled expression
    parses,         \* source -> how often the calls given the cache parsed it
    literal,        \* the last parseObjectLiteral call: its tokens and its result
    binding,        \* the element of an if binding and the closure of IfDirective.apply
    weakMap,        \* an emulated weak map, a native one and the last call on both
    virtual,        \* a VirtualChildNodes instance, its target node and its callbacks
    lexer,          \* the last Lexer.lex call: its text and its tokens or error
    router          \* the router: its current state, the history and the calls made

\* the variables outside the expression compiler's evaluation
aside == <<weakMap, virtual, lexer, router>>

vars == <<heap, getterFnCache, compiled, ev, cache, parses, literal, binding, aside>>

----------------------------------------------------------------------------
(* Bounds *)

\* Number of object identities available to the heap.
MaxObj == 8

\* the most parser runs counted for one source
MaxParses == 3

----------------------------------------------------------------------------
(* Values *)

Undef == <<"undef", 0>>
Null == <<"null", 0>>
Num(n) == <<"num", n>>
Ref(o) == <<"obj", o>>
\* the locals object itself, when a path starts in it
LocalsVal == <<"locals", 0>>

ObjIds == 1 .. MaxObj

IsObj(v) == v[1] = "obj"
\* `v == null`
IsNullish(v) == v[1] \in {"undef", "null"}
\* `!v` is false
Truthy(v) ==
    \/ v[1] \in {"obj", "locals", "noop"}
    \/ (v[1] \in {"num", "bool"} /\ v[2] # 0)
    \/ (v[1] = "str" /\ v[2] # "")

\* An object is the set of its <<key, value>> fields; a key it does not hold
\* reads as undefined.
EmptyObj == {}

ObjGet(obj, key) ==
    IF \E p \in obj : p[1] = key THEN (CHOOSE p \in obj : p[1] = key)[2] ELSE Undef

ObjPut(obj, key, v) ==
    {p \in obj : p[1] # key} \cup (IF v = Undef THEN {} ELSE {<<key, v>>})

----------------------------------------------------------------------------
(* Errors *)

NoErr == [name |-> "", message |-> ""]

\* $parseMinErr(module, message, ...): the module tag is not used, the error
\* thrown is a SyntaxError holding the formatted message.
parseMinErr(module, message) == [name |-> "SyntaxError", message |-> message]

\* an error thrown by the JavaScript runtime itself
TypeError(message) == [name |-> "TypeError", message |-> message]

IsecfldMsg == "Referencing \"constructor\" field in WebRx expressions is disallowed!"

\* ensureSafeMemberName(name, fullExpression): TRUE iff it throws
UnsafeMemberName(name) == name = "constructor"

ensureSafeMemberNameErr == parseMinErr("isecfld", IsecfldMsg)

\* Lexer.throwError(error) and Parser.throwError(msg, token)
lexerThrowError(error) == parseMinErr("lexerr", error)
throwError(msg) == parseMinErr("syntax", msg)

----------------------------------------------------------------------------
(* Locals and runtime hooks *)

NoHooks == [present |-> FALSE, read |-> FALSE, write |-> FALSE, store |-> FALSE,
     readIndex |-> FALSE, writeIndex |-> FALSE, indexRet |-> <<"undef", 0>>]

\* locals omitted by the caller
UndefLocals == [def |-> FALSE, own |-> {}, hooks |-> NoHooks]

MkLocals(own, hooks) == [def |-> TRUE, own |-> own, hooks |-> hooks]

\* the caller has put hooks on locals: setRuntimeHooks(locals, hooks)
CarriesHooks(locals) == locals.def /\ locals.hooks.present

\* hooks that stay with the compiled expression: the hooks of the evaluation
\* before when locals carry none
getRuntimeHooksKept(locals) ==
    IF CarriesHooks(locals) THEN locals.hooks ELSE ev.locals.hooks

\* getRuntimeHooks(locals)
getRuntimeHooks(locals) == IF locals.def THEN locals.hooks ELSE NoHooks

\* `locals && locals.hasOwnProperty(key)`
LocalsHasOwn(locals, key) == locals.def /\ \E p \in locals.own : p[1] = key

\* `base[key]` for a base that is neither null nor undefined
PropOf(h, locals, base, key) ==
    IF base = LocalsVal
    THEN ObjGet(locals.own, key)
    ELSE IF IsObj(base) THEN ObjGet(h[base[2]], key)
    ELSE Undef

\* hooks.readFieldHook(obj, key) of a hook that records the call and reads the field
readFieldHook(h, locals, base, key) == PropOf(h, locals, base, key)

----------------------------------------------------------------------------
(* Outcomes of an evaluation: a value or a throw, with the accesses made *)

Val(v, tr) == [v |-> v, tr |-> tr, kind |-> "value", err |-> NoErr]
Throw(e, tr) == [v |-> Undef, tr |-> tr, kind |-> "throw", err |-> e]

\* an access: <<kind, object, key, value read or written>>
RdEv(hooked, base, key, v) == <<IF hooked THEN "hookRead" ELSE "read", base, key, v>>

----------------------------------------------------------------------------
(* Path getters *)

\* the closure returned by simpleGetterFn1(key0, fullExp)
simpleGetterFn1(h, key0, scope, locals) ==
    LET base == IF LocalsHasOwn(locals, key0) THEN LocalsVal ELSE scope
        hooks == getRuntimeHooks(locals)
        hooked == hooks.present /\ hooks.read
    IN  IF IsNullish(base) THEN Val(Undef, <<>>)
        ELSE IF hooked
             THEN LET v == readFieldHook(h, locals, base, key0)
                  IN  Val(v, <<RdEv(TRUE, base, key0, v)>>)
             ELSE LET v == PropOf(h, locals, base, key0)
                  IN  Val(v, <<RdEv(FALSE, base, key0, v)>>)

\* the closure returned by simpleGetterFn2(key0, key1, fullExp)
simpleGetterFn2(h, key0, key1, scope, locals) ==
    LET base == IF LocalsHasOwn(locals, key0) THEN LocalsVal ELSE scope
        hooks == getRuntimeHooks(locals)
        hooked == hooks.present /\ hooks.read
    IN  IF hooked
        THEN IF IsNullish(base) THEN Val(Undef, <<>>)
             ELSE LET v0 == readFieldHook(h, locals, base, key0)
                      t0 == <<RdEv(TRUE, base, key0, v0)>>
                      v1 == readFieldHook(h, locals, v0, key1)
                  IN  IF IsNullish(v0) THEN Val(Undef, t0)
                      ELSE Val(v1, Append(t0, RdEv(TRUE, v0, key1, v1)))
        ELSE IF IsNullish(base)
             THEN Throw(TypeError("Cannot read property of null or undefined"), <<>>)
             ELSE LET v0 == PropOf(h, locals, base, key0)
                      t0 == <<RdEv(FALSE, base, key0, v0)>>
                      v1 == PropOf(h, locals, v0, key1)
                  IN  IF IsNullish(v0) THEN Val(Undef, t0)
                      ELSE Val(v1, Append(t0, RdEv(FALSE, v0, key1, v1)))

\* the unrolled body of the closure of cspSafeGetterFn from its i-th key on:
\* `if (!key_i) return pathVal; if (pathVal == null) return undefined;
\*  pathVal = pathVal[key_i]` (through readFieldHook when hooked)
RECURSIVE cspSafeWalk(_, _, _, _, _, _, _)
cspSafeWalk(h, locals, ks, i, pathVal, hooked, tr) ==
    IF i > Len(ks) THEN Val(pathVal, tr)
    ELSE IF IsNullish(pathVal) THEN Val(IF i = 1 THEN pathVal ELSE Undef, tr)
    ELSE LET v == IF hooked THEN readFieldHook(h, locals, pathVal, ks[i])
                            ELSE PropOf(h, locals, pathVal, ks[i])
         IN  cspSafeWalk(h, locals, ks, i + 1, v, hooked,
                         Append(tr, RdEv(hooked, pathVal, ks[i], v)))

\* cspSafeGetterFn(key0 .. key4, fullExp)(scope, locals): ks holds the keys
\* that are defined (at most five); the member names are checked first
cspSafeGetterFn(h, ks, scope, locals) ==
    IF \E i \in 1 .. Len(ks) : UnsafeMemberName(ks[i])
    THEN Throw(ensureSafeMemberNameErr, <<>>)
    ELSE LET base == IF LocalsHasOwn(locals, ks[1]) THEN LocalsVal ELSE scope
             hooks == getRuntimeHooks(locals)
         IN  cspSafeWalk(h, locals, ks, 1, base, hooks.present /\ hooks.read, <<>>)

Min(a, b) == IF a < b THEN a ELSE b

\* the do-while loop of the closure getterFn builds for six and more keys:
\* one cspSafeGetterFn per chunk of five keys, each built when it is evaluated
\* and each given a copy of locals
RECURSIVE chunkLoop(_, _, _, _, _, _)
\* the statements after `val = cspSafeGetterFn(...)(scope, locals)`, r its outcome
chunkNext(h, pathKeys, i, locals, tr, r) ==
    IF r.kind = "throw" THEN Throw(r.err, tr \o r.tr)
    ELSE IF i + 5 <= Len(pathKeys)
         THEN chunkLoop(h, pathKeys, i + 5, r.v, locals, tr \o r.tr)
         ELSE Val(r.v, tr \o r.tr)

chunkLoop(h, pathKeys, i, scope, locals, tr) ==
    chunkNext(h, pathKeys, i, locals, tr,
              cspSafeGetterFn(h, SubSeq(pathKeys, i, Min(i + 4, Len(pathKeys))),
                              scope, locals))

\* the closure getterFn(path, options, fullExp) returns, applied to (scope, locals)
getterEval(h, pathKeys, scope, locals) ==
    IF Len(pathKeys) = 1 THEN simpleGetterFn1(h, pathKeys[1], scope, locals)
    ELSE IF Len(pathKeys) = 2
         THEN simpleGetterFn2(h, pathKeys[1], pathKeys[2], scope, locals)
    ELSE IF Len(pathKeys) < 6 THEN cspSafeGetterFn(h, pathKeys, scope, locals)
    ELSE IF ~locals.def
         THEN Throw(TypeError("Cannot convert undefined or null to object"), <<>>)
         ELSE chunkLoop(h, pathKeys, 1, scope, locals, <<>>)

\* getterFn(path, options, fullExp) at compile time: TRUE iff it throws.
\* A cached path is returned as is; one and two keys and three to five keys
\* are checked by the simple and csp getters; six and more build a closure
\* that checks nothing until it is evaluated.
getterFnThrows(gcache, pathKeys) ==
    /\ pathKeys \notin gcache
    /\ Len(pathKeys) < 6
    /\ \E i \in 1 .. Len(pathKeys) : UnsafeMemberName(pathKeys[i])

\* the getter cache after getterFn(path, ...) returned: the path is stored
\* unless it is "hasOwnProperty"
getterFnStore(gcache, pathKeys) ==
    IF pathKeys = <<"hasOwnProperty">> THEN gcache ELSE gcache \cup {pathKeys}

----------------------------------------------------------------------------
(* The heap *)

RECURSIVE ReachFrom(_, _)
ReachFrom(h, S) ==
    LET T == S \cup {f[2][2] : f \in {g \in UNION {h[p] : p \in S} : IsObj(g[2])}}
    IN  IF T = S THEN S ELSE ReachFrom(h, T)

\* the objects the caller can reach: those reachable from the scope object
Reach(h) == ReachFrom(h, {1})

\* objects nothing refers to any more are collected
Collect(h) == [o \in ObjIds |-> IF o \in Reach(h) THEN h[o] ELSE EmptyObj]

\* `{}`: an object identity in use nowhere
Fresh(h, used) ==
    CHOOSE o \in ObjIds \ (Reach(h) \cup used) :
        \A p \in ObjIds \ (Reach(h) \cup used) : o <= p

FreeIds(h) == Cardinality(ObjIds \ Reach(h))

----------------------------------------------------------------------------
(* setter(obj, path, setValue, fullExp, options, locals) *)

WrEv(hooked, base, key, v) == <<IF hooked THEN "hookWrite" ELSE "write", base, key, v>>

SetOut(kind, v, err, h, tr) == [v |-> v, h |-> h, tr |-> tr, kind |-> kind, err |-> err]

\* hooks.writeFieldHook(obj, key, value) of a hook that records the call and,
\* when hooks.store, stores the value in the object
writeFieldHook(h, hooks, obj, key, v) ==
    IF hooks.store /\ IsObj(obj) THEN [h EXCEPT ![obj[2]] = ObjPut(@, key, v)] ELSE h

\* `obj[key] = v` in strict mode code: TRUE iff it throws
DirectWriteThrows(obj) == ~IsObj(obj)

DirectWrite(h, obj, key, v) == [h EXCEPT ![obj[2]] = ObjPut(@, key, v)]

\* the last statements of setter, writing the property whatever the hooks
setterLastDirect(h, hooks, obj, key, setValue, tr) ==
    IF UnsafeMemberName(key)
    THEN SetOut("throw", Undef, ensureSafeMemberNameErr, h, tr)
    ELSE IF DirectWriteThrows(obj)
         THEN SetOut("throw", Undef, TypeError("Cannot create property"), h, tr)
         ELSE SetOut("value", setValue, NoErr, DirectWrite(h, obj, key, setValue),
                     Append(tr, WrEv(FALSE, obj, key, setValue)))

\* the last statements of setter, yielding setValue without writing it
setterLastNoWrite(h, hooks, obj, key, setValue, tr) ==
    IF UnsafeMemberName(key)
    THEN SetOut("throw", Undef, ensureSafeMemberNameErr, h, tr)
    ELSE SetOut("value", setValue, NoErr, h, tr)

\* the last statements of setter: the write of setValue at the last key
setterLast(h, hooks, obj, key, setValue, tr) ==
    IF UnsafeMemberName(key)
    THEN SetOut("throw", Undef, ensureSafeMemberNameErr, h, tr)
    ELSE IF hooks.present /\ hooks.write
         THEN SetOut("value", setValue, NoErr,
                     writeFieldHook(h, hooks, obj, key, setValue),
                     Append(tr, WrEv(TRUE, obj, key, setValue)))
    ELSE IF DirectWriteThrows(obj)
         THEN SetOut("throw", Undef, TypeError("Cannot create property"), h, tr)
         ELSE SetOut("value", setValue, NoErr, DirectWrite(h, obj, key, setValue),
                     Append(tr, WrEv(FALSE, obj, key, setValue)))

\* the loops of setter over all but the last key (one loop with hooks, one
\* without): read the key, create and store an empty object when the value
\* read is falsy, and step into it
RECURSIVE setterWalk(_, _, _, _, _, _, _, _)
setterWalk(h, hooks, element, i, obj, setValue, tr, used) ==
    IF i = Len(element) THEN setterLast(h, hooks, obj, element[i], setValue, tr)
    ELSE
    LET key == element[i]
        hookedRd == hooks.present /\ hooks.read
        hookedWr == hooks.present /\ hooks.write
    IN
    IF UnsafeMemberName(key)
    THEN SetOut("throw", Undef, ensureSafeMemberNameErr, h, tr)
    ELSE IF IsNullish(obj)
    THEN SetOut("throw", Undef, TypeError("Cannot read property of null or undefined"),
                h, tr)
    ELSE
    LET propertyObj == IF hookedRd THEN readFieldHook(h, UndefLocals, obj, key)
                                   ELSE PropOf(h, UndefLocals, obj, key)
        tr1 == Append(tr, RdEv(hookedRd, obj, key, propertyObj))
    IN
    IF Truthy(propertyObj)
    THEN setterWalk(h, hooks, element, i + 1, propertyObj, setValue, tr1, used)
    ELSE
    LET new == Ref(Fresh(h, used))
        tr2 == Append(tr1, WrEv(hookedWr, obj, key, new))
    IN
    IF hookedWr
    THEN setterWalk(writeFieldHook(h, hooks, obj, key, new), hooks, element, i + 1,
                    new, setValue, tr2, used \cup {new[2]})
    ELSE IF DirectWriteThrows(obj)
    THEN SetOut("throw", Undef, TypeError("Cannot create property"), h, tr1)
    ELSE setterWalk(DirectWrite(h, obj, key, new), hooks, element, i + 1,
                    new, setValue, tr2, used \cup {new[2]})

setter(h, obj, pathKeys, setValue, locals) ==
    setterWalk(h, getRuntimeHooks(locals), pathKeys, 1, obj, setValue, <<>>, {})

----------------------------------------------------------------------------
(* The sandbox guard on objects, and the calls and indexed accesses that     *)
(* pass their values through it.  A function is an object with the field     *)
(* "@call" holding what it returns; Function itself is its own constructor.  *)

IsecfnMsg == "Referencing Function in WebRx expressions is disallowed!"
IsecwindowMsg == "Referencing the Window in WebRx expressions is disallowed!"
IsecdomMsg == "Referencing DOM nodes in WebRx expressions is disallowed!"

\* `obj.key` as a condition
Has(h, obj, key) == Truthy(PropOf(h, UndefLocals, obj, key))

\* ensureSafeObject(obj) with the Function test left out
ensureSafeObjectNoFn(h, obj) ==
    IF ~Truthy(obj) THEN NoErr
    ELSE IF /\ Has(h, obj, "document") /\ Has(h, obj, "location")
            /\ Has(h, obj, "alert") /\ Has(h, obj, "setInterval")
    THEN parseMinErr("isecwindow", IsecwindowMsg)
    ELSE IF /\ Has(h, obj, "children")
            /\ \/ Has(h, obj, "nodeName")
               \/ Has(h, obj, "prop") /\ Has(h, obj, "attr") /\ Has(h, obj, "find")
    THEN parseMinErr("isecdom", IsecdomMsg)
    ELSE NoErr

\* ensureSafeObject(obj) with the Window test left out
ensureSafeObjectNoWindow(h, obj) ==
    IF ~Truthy(obj) THEN NoErr
    ELSE IF PropOf(h, UndefLocals, obj, "constructor") = obj
    THEN parseMinErr("isecfn", IsecfnMsg)
    ELSE IF /\ Has(h, obj, "children")
            /\ \/ Has(h, obj, "nodeName")
               \/ Has(h, obj, "prop") /\ Has(h, obj, "attr") /\ Has(h, obj, "find")
    THEN parseMinErr("isecdom", IsecdomMsg)
    ELSE NoErr

\* ensureSafeObject(obj): the error it throws, NoErr when it returns obj
ensureSafeObjectErr(h, obj) ==
    IF ~Truthy(obj) THEN NoErr
    ELSE IF PropOf(h, UndefLocals, obj, "constructor") = obj
    THEN parseMinErr("isecfn", IsecfnMsg)
    ELSE IF /\ Has(h, obj, "document") /\ Has(h, obj, "location")
            /\ Has(h, obj, "alert") /\ Has(h, obj, "setInterval")
    THEN parseMinErr("isecwindow", IsecwindowMsg)
    ELSE IF /\ Has(h, obj, "children")
            /\ \/ Has(h, obj, "nodeName")
               \/ Has(h, obj, "prop") /\ Has(h, obj, "attr") /\ Has(h, obj, "find")
    THEN parseMinErr("isecdom", IsecdomMsg)
    ELSE NoErr

\* `function noop() {}`
noop == <<"noop", 0>>

Callable(h, f) == f = noop \/ (IsObj(f) /\ \E p \in h[f[2]] : p[1] = "@call")

\* what `fnPtr.apply(context, args)` returns
Apply(h, f) == IF f = noop THEN Undef ELSE ObjGet(h[f[2]], "@call")

\* the hooks of the caller's locals: readIndexHook returns the value the
\* caller made it return, writeIndexHook stores like writeFieldHook
readIndexHook(hooks, o, i) == hooks.indexRet
writeIndexHook(h, hooks, o, i, v) ==
    IF hooks.store /\ IsObj(o) THEN [h EXCEPT ![o[2]] = ObjPut(@, i, v)] ELSE h

\* an outcome r with the accesses tr made before it
After(tr, r) == [r EXCEPT !.tr = tr \o r.tr]

\* Parser.fieldAccess(object), read: `getter(self || object(scope, locals))`,
\* o the outcome of `self || object(scope, locals)`
fieldAccessOf(h, field, o) ==
    IF o.kind = "throw" THEN o
    ELSE After(o.tr, getterEval(h, field, o.v, UndefLocals))

fieldAccess(h, q, field, scope, locals, self) ==
    fieldAccessOf(h, field, IF Truthy(self) THEN Val(self, <<>>)
                            ELSE getterEval(h, q, scope, locals))

\* `v = ensureSafeObject(v, parser.text); return v`
ensureSafeValue(v, tr, e) == IF e # NoErr THEN Throw(e, tr) ELSE Val(v, tr)

\* Parser.objectIndex(obj), read, the index a string literal: o the outcome
\* of `obj(self, locals)`, v the value read when o is truthy
objectIndexRead(h, i, hooked, o, v) ==
    IF o.kind = "throw" THEN o
    ELSE IF ~Truthy(o.v) THEN Val(Undef, o.tr)
    ELSE ensureSafeValue(v, Append(o.tr, <<IF hooked THEN "hookIndexRead"
                                           ELSE "indexRead", o.v, i, v>>),
                         ensureSafeObjectErr(h, v))

objectIndexOf(h, i, locals, hooks, o) ==
    objectIndexRead(h, i, hooks.present /\ hooks.readIndex, o,
                    IF hooks.present /\ hooks.readIndex
                    THEN readIndexHook(hooks, o.v, i)
                    ELSE PropOf(h, locals, o.v, i))

objectIndex(h, q, i, scope, locals) ==
    objectIndexOf(h, i, locals, getRuntimeHooks(locals),
                  getterEval(h, q, scope, locals))

\* Parser.objectIndex(obj), assign: o the outcome of `obj(self, locals)`,
\* e what ensureSafeObject throws for it
objectIndexWrite(h, key, value, hooks, o, e) ==
    IF o.kind = "throw" THEN SetOut("throw", Undef, o.err, h, o.tr)
    ELSE IF e # NoErr THEN SetOut("throw", Undef, e, h, o.tr)
    ELSE IF hooks.present /\ hooks.writeIndex
    THEN SetOut("value", Undef, NoErr, writeIndexHook(h, hooks, o.v, key, value),
                Append(o.tr, <<"hookIndexWrite", o.v, key, value>>))
    ELSE IF DirectWriteThrows(o.v)
    THEN SetOut("throw", Undef, TypeError("Cannot set property"), h, o.tr)
    ELSE SetOut("value", value, NoErr, DirectWrite(h, o.v, key, value),
                Append(o.tr, <<"indexWrite", o.v, key, value>>))

objectIndexAssignOf(h, key, value, hooks, o) ==
    objectIndexWrite(h, key, value, hooks, o, ensureSafeObjectErr(h, o.v))

objectIndexAssign(h, q, key, value, scope, locals) ==
    objectIndexAssignOf(h, key, value, getRuntimeHooks(locals),
                        getterEval(h, q, scope, locals))

\* Parser.functionCall(fn, contextGetter), without arguments: src.op is
\* "call" for `p()`, "callm" for `q.p()` and "callidx" for `q['p']()`.
\* The last statements: `v = fnPtr.apply(context, args);
\* return ensureSafeObject(v)`
callApply(fnPtr, tr, v, e3) ==
    ensureSafeValue(v, Append(tr, <<"call", fnPtr, "", v>>), e3)

\* `ensureSafeObject(context); ensureSafeObject(fnPtr)` and the call
callChecked(h, fnPtr, tr, e1, e2) ==
    IF e1 # NoErr THEN Throw(e1, tr)
    ELSE IF e2 # NoErr THEN Throw(e2, tr)
    ELSE IF ~Callable(h, fnPtr) THEN Throw(TypeError("fnPtr is not a function"), tr)
    ELSE callApply(fnPtr, tr, Apply(h, fnPtr), ensureSafeObjectErr(h, Apply(h, fnPtr)))

callFnPtr(h, context, fnPtr, tr) ==
    callChecked(h, fnPtr, tr, ensureSafeObjectErr(h, context),
                ensureSafeObjectErr(h, fnPtr))

\* `fnPtr = fn(scope, locals, context) || noop`, f the outcome of fn
callFn(h, c, f) ==
    IF f.kind = "throw" THEN Throw(f.err, c.tr \o f.tr)
    ELSE callFnPtr(h, c.v, IF Truthy(f.v) THEN f.v ELSE noop, c.tr \o f.tr)

\* c the outcome of `contextGetter ? contextGetter(scope, locals) : scope`
callContext(h, src, scope, locals, c) ==
    IF c.kind = "throw" THEN c
    ELSE callFn(h, c,
                IF src.op = "call" THEN getterEval(h, src.p, scope, locals)
                ELSE IF src.op = "callm"
                THEN fieldAccess(h, src.q, src.p, scope, locals, c.v)
                ELSE objectIndex(h, src.q, src.p[1], scope, locals))

functionCall(h, src, scope, locals) ==
    callContext(h, src, scope, locals,
                IF src.op = "call" THEN Val(scope, <<>>)
                ELSE getterEval(h, src.q, scope, locals))

----------------------------------------------------------------------------
(* Expressions.  The lexer folds a dotted identifier run into one token      *)
(* (Lexer.readIdent), so a source is given by its identifier tokens:         *)
(*   Path(p)       the source `p`                                            *)
(*   Field(q, p)   the source `(q).p`                                        *)
(*   Assign(p, v)  the source `p = v`, v a literal                           *)

NoSrc == [p |-> <<>>, q |-> <<>>, op |-> "none", rhs |-> Undef]
Path(p) == [p |-> p, q |-> <<>>, op |-> "path", rhs |-> Undef]
Field(q, p) == [p |-> p, q |-> q, op |-> "field", rhs |-> Undef]
Assign(p, v) == [p |-> p, q |-> <<>>, op |-> "assign", rhs |-> v]
Call(p) == [p |-> p, q |-> <<>>, op |-> "call", rhs |-> Undef]
CallMethod(q, m) == [p |-> <<m>>, q |-> q, op |-> "callm", rhs |-> Undef]
CallIndex(q, i) == [p |-> <<i>>, q |-> q, op |-> "callidx", rhs |-> Undef]
Index(q, i) == [p |-> <<i>>, q |-> q, op |-> "index", rhs |-> Undef]
IndexAssign(q, i, v) == [p |-> <<i>>, q |-> q, op |-> "indexAssign", rhs |-> v]
CallAssign(p, v) == [p |-> p, q |-> <<>>, op |-> "callAssign", rhs |-> v]

----------------------------------------------------------------------------
(* Tokens.  Lexer.lex reads the source text into tokens {index, text, fn}.   *)
(* A source is given by its words, written one blank apart: numbers,         *)
(* string literals, the constants of OPERATORS, identifiers, operators and   *)
(* punctuation.  The sources open no array and no object literal.            *)

True == <<"bool", 1>>
False == <<"bool", 0>>
NaN == <<"nan", 0>>
Str(s) == <<"str", s>>
Bool(b) == IF b THEN True ELSE False

Word(text, kind, path, v, width) ==
    [v |-> v, kind |-> kind, text |-> text, path |-> path, width |-> width]

\* Lexer.readNumber: {index, text, json: true, fn() { return n; }}
NumW(n, text) == Word(text, "num", <<>>, Num(n), 1)
\* Lexer.readString: text is the raw string, quotes included
StrW(s, text) == Word(text, "str", <<>>, Str(s), 3)
\* Lexer.readIdent, `OPERATORS.hasOwnProperty(ident)`
TrueW == Word("true", "const", <<>>, True, 4)
FalseW == Word("false", "const", <<>>, False, 5)
NullW == Word("null", "const", <<>>, Null, 4)
UndefinedW == Word("undefined", "const", <<>>, Undef, 9)
\* Lexer.readIdent, an identifier of one segment and one letter: its fn is
\* the getter of the path, its assign the setter
Id(name) == Word(name, "ident", <<name>>, Undef, 1)
\* Lexer.readIdent, a dotted identifier of width characters
IdPath(p, text, width) == Word(text, "ident", p, Undef, width)
\* Lexer.readIdent, the method name split off before a `(`: no fn
NameW(name) == Word(name, "name", <<name>>, Undef, 1)
\* Lexer.lex, an operator of OPERATORS of one or two characters
Op1(text) == Word(text, "op", <<>>, Undef, 1)
Op2(text) == Word(text, "op", <<>>, Undef, 2)
\* Lexer.lex, one of `(){}[].,;:?`: no fn
Pn(text) == Word(text, "punct", <<>>, Undef, 1)

RECURSIVE lexAt(_, _, _)
lexAt(words, i, index) ==
    IF i > Len(words) THEN <<>>
    ELSE <<[v |-> words[i].v, kind |-> words[i].kind, text |-> words[i].text,
            path |-> words[i].path, index |-> index]>>
         \o lexAt(words, i + 1, index + words[i].width + 1)

\* Lexer.lex(text): the tokens with their 0-based indexes
lex(words) == lexAt(words, 1, 0)

\* the source whose text is the words
Text(words) == [p |-> <<>>, q |-> <<>>, op |-> "text", rhs |-> Undef, toks |-> lex(words)]

\* `token.fn` is set
HasFn(tok) == tok.kind \in {"num", "str", "const", "ident", "op"}

\* the paths Lexer.readIdent and Parser.fieldAccess hand to getterFn
TokenIdents(toks) ==
    LET idx == SelectSeq([k \in 1 .. Len(toks) |-> k],
                         LAMBDA k : toks[k].kind \in {"ident", "name"})
    IN  [k \in 1 .. Len(idx) |-> toks[idx[k]].path]

----------------------------------------------------------------------------
(* The options of the parser: `this.options = options || { filters: {} }` *)

ParserOptions(disallow, hasFilters, filters) ==
    [hasFilters |-> hasFilters, filters |-> filters, disallowFunctionCalls |-> disallow]

DefaultOptions == ParserOptions(FALSE, TRUE, {})

----------------------------------------------------------------------------
(* The closures the parser builds *)

NoNode == [op |-> "none"]
ConstNode(v) == [v |-> v, op |-> "const"]
OperatorNode(f) == [f |-> f, op |-> "operator"]
UnaryNode(f, a) == [a |-> a, f |-> f, op |-> "unary"]
BinaryNode(f, a, b) == [a |-> a, b |-> b, f |-> f, op |-> "binary"]
TernaryNode(a, b, c) == [a |-> a, b |-> b, c |-> c, op |-> "ternary"]
FilterNode(name, known, a, args) ==
    [name |-> name, a |-> a, op |-> "filter", known |-> known, args |-> args]
AssignNode(a, b) == [a |-> a, b |-> b, op |-> "assignTo"]
MemberNode(a, field) == [a |-> a, field |-> field, op |-> "member"]
ElemNode(a, b) == [a |-> a, b |-> b, op |-> "elem"]
InvokeNode(fn, hasContext, context, args) ==
    [context |-> context, op |-> "invoke", args |-> args, fn |-> fn,
     hasContext |-> hasContext]
StatementsNode(s) == [op |-> "statements", s |-> s]

NodeOps == {"const", "operator", "unary", "binary", "ternary", "filter", "assignTo",
            "member", "elem", "invoke", "statements"}

\* HasAssign with the closure of Parser.functionCall counted in
HasAssignCalls(node) == node.op \in {"path", "member", "elem", "invoke"}

\* the closures extended with `assign`: an identifier token (Lexer.readIdent),
\* Parser.fieldAccess and Parser.objectIndex
HasAssign(node) == node.op \in {"path", "member", "elem"}

\* `function ZERO() { return 0; }`
ZERO == ConstNode(Num(0))

\* `token.fn` of a token that has one
tokenFn(tok) ==
    IF tok.kind \in {"num", "str", "const"} THEN ConstNode(tok.v)
    ELSE IF tok.kind = "ident" THEN Path(tok.path)
    ELSE IF tok.text = "=" THEN ConstNode(Undef)
    ELSE OperatorNode(tok.text)

----------------------------------------------------------------------------
(* Parser: each production takes the parser ps = [toks, opts] and the       *)
(* position i of the next token, and gives the closure and the position     *)
(* after it, or the error it throws                                         *)

Parsed(node, i) == [err |-> NoErr, i |-> i, node |-> node, ok |-> TRUE]
Failed(err) == [err |-> err, i |-> 0, node |-> NoNode, ok |-> FALSE]

\* $parseMinErr("syntax", "WebRx Syntax Error: Token '{0}' {1} at column {2}
\* of the expression [{3}] starting at [{4}].", ...): the message, the token
\* text and the column as they are formatted, and the source text before the
\* token where the message quotes it
syntaxError(msg, text, column, before) ==
    [name |-> "SyntaxError", message |-> msg, column |-> column, before |-> before,
     token |-> text]

\* Parser.throwError(msg, token), token the token at i, or `false` past the
\* end: `false.text` is undefined and `false.index + 1` is NaN
throwErrorAt(ps, msg, i) ==
    IF i <= Len(ps.toks)
    THEN syntaxError(msg, ps.toks[i].text, Num(ps.toks[i].index + 1), <<>>)
    ELSE syntaxError(msg, "undefined", NaN, <<>>)

\* Parser.throwError(msg) without a token: `token.text` of undefined
throwErrorNoToken == TypeError("Cannot read property 'text' of undefined")

\* Parser.peekToken at the end of the tokens
ueoe == parseMinErr("ueoe", "Unexpected end of expression")

\* Parser.peek(e1, e2, e3, e4)
peek(ps, i, texts) == i <= Len(ps.toks) /\ ps.toks[i].text \in texts

\* Parser.consume(e1) after the production r
consume(ps, r, e1) ==
    IF peek(ps, r.i, {e1}) THEN Parsed(r.node, r.i + 1)
    ELSE Failed(throwErrorAt(ps, "is unexpected, expecting [" \o e1 \o "]", r.i))

\* Parser.binaryFn(left, fn, right), r the production of right
binaryFn(left, f, r) ==
    IF ~r.ok THEN r ELSE Parsed(BinaryNode(f, left, r.node), r.i)

\* Parser.unaryFn(fn, right)
unaryFn(f, r) == IF ~r.ok THEN r ELSE Parsed(UnaryNode(f, r.node), r.i)

RECURSIVE statementsLoop(_, _, _)
RECURSIVE filterChain(_, _)
RECURSIVE filterChainLoop(_, _)
RECURSIVE filterArgs(_, _, _)
RECURSIVE assignment(_, _)
RECURSIVE ternary(_, _)
RECURSIVE logicalOR(_, _)
RECURSIVE logicalORLoop(_, _)
RECURSIVE logicalAND(_, _)
RECURSIVE equality(_, _)
RECURSIVE relational(_, _)
RECURSIVE additive(_, _)
RECURSIVE additiveLoop(_, _)
RECURSIVE multiplicative(_, _)
RECURSIVE multiplicativeLoop(_, _)
RECURSIVE unary(_, _)
RECURSIVE primary(_, _)
RECURSIVE primaryLoop(_, _, _, _)
RECURSIVE callArgs(_, _, _, _, _, _)

\* Parser.expression
expression(ps, i) == assignment(ps, i)

\* Parser.statements
statementsSep(ps, i, stmts) ==
    IF peek(ps, i, {";"}) THEN statementsLoop(ps, i + 1, stmts)
    ELSE Parsed(IF Len(stmts) = 1 THEN stmts[1] ELSE StatementsNode(stmts), i)

statementsPush(ps, stmts, r) ==
    IF ~r.ok THEN r ELSE statementsSep(ps, r.i, Append(stmts, r.node))

statementsLoop(ps, i, stmts) ==
    IF i <= Len(ps.toks) /\ ~peek(ps, i, {"}", ")", ";", "]"})
    THEN statementsPush(ps, stmts, filterChain(ps, i))
    ELSE statementsSep(ps, i, stmts)

statements(ps) == statementsLoop(ps, 1, <<>>)

\* Parser.filter: `token = this.expect(); fn = this.options.filters[token.text]`
\* and the arguments after each `:`
filterArg(ps, node, r) ==
    IF ~r.ok THEN r ELSE filterArgs(ps, r.i, [node EXCEPT !.args = Append(@, r.node)])

filterArgs(ps, i, node) ==
    IF peek(ps, i, {":"}) THEN filterArg(ps, node, expression(ps, i + 1))
    ELSE Parsed(node, i)

filter(ps, i) ==
    IF ~ps.opts.hasFilters
    THEN Failed(TypeError("Cannot read property of undefined"))
    ELSE IF i <= Len(ps.toks)
    THEN filterArgs(ps, i + 1, FilterNode(ps.toks[i].text,
                                          ps.toks[i].text \in ps.opts.filters,
                                          NoNode, <<>>))
    ELSE filterArgs(ps, i, FilterNode("undefined", "undefined" \in ps.opts.filters,
                                      NoNode, <<>>))

\* Parser.filterChain: `left = this.binaryFn(left, token.fn, this.filter())`
filterOf(left, r) ==
    IF ~r.ok THEN r ELSE Parsed([r.node EXCEPT !.a = left], r.i)

filterChainLoop(ps, l) ==
    IF ~l.ok THEN l
    ELSE IF peek(ps, l.i, {"|"})
    THEN filterChainLoop(ps, filterOf(l.node, filter(ps, l.i + 1)))
    ELSE l

filterChain(ps, i) == filterChainLoop(ps, expression(ps, i))

\* the texts of the tokens before the token at i: `text.substring(0, token.index)`
Before(ps, i) == [k \in 1 .. i - 1 |-> ps.toks[k].text]

\* Parser.assignment
assignmentRight(left, r) ==
    IF ~r.ok THEN r ELSE Parsed(AssignNode(left, r.node), r.i)

assignmentOf(ps, l) ==
    IF ~l.ok THEN l
    ELSE IF ~peek(ps, l.i, {"="}) THEN l
    ELSE IF ~HasAssign(l.node)
    THEN Failed(syntaxError("implies assignment but [] can not be assigned to",
                            "=", Num(ps.toks[l.i].index + 1), Before(ps, l.i)))
    ELSE assignmentRight(l.node, ternary(ps, l.i + 1))

assignment(ps, i) == assignmentOf(ps, ternary(ps, i))

\* Parser.ternary: `this.throwError("expected :", token)` is given the
\* `false` of the failed expect
ternaryFn(left, middle, r) ==
    IF ~r.ok THEN r ELSE Parsed(TernaryNode(left, middle, r.node), r.i)

ternaryMiddle(ps, left, m) ==
    IF ~m.ok THEN m
    ELSE IF peek(ps, m.i, {":"}) THEN ternaryFn(left, m.node, ternary(ps, m.i + 1))
    ELSE Failed(syntaxError("expected :", "undefined", NaN, <<>>))

ternaryOf(ps, l) ==
    IF ~l.ok THEN l
    ELSE IF peek(ps, l.i, {"?"}) THEN ternaryMiddle(ps, l.node, ternary(ps, l.i + 1))
    ELSE l

ternary(ps, i) == ternaryOf(ps, logicalOR(ps, i))

\* Parser.logicalOR with `&&` taken at the level of `||`
RECURSIVE logicalORFlatLoop(_, _)
logicalORFlatLoop(ps, l) ==
    IF ~l.ok THEN l
    ELSE IF peek(ps, l.i, {"||", "&&"})
    THEN logicalORFlatLoop(ps, binaryFn(l.node, ps.toks[l.i].text,
                                        equality(ps, l.i + 1)))
    ELSE l

logicalORFlat(ps, i) == logicalORFlatLoop(ps, equality(ps, i))

\* Parser.logicalOR
logicalORLoop(ps, l) ==
    IF ~l.ok THEN l
    ELSE IF peek(ps, l.i, {"||"})
    THEN logicalORLoop(ps, binaryFn(l.node, "||", logicalAND(ps, l.i + 1)))
    ELSE l

logicalOR(ps, i) == logicalORLoop(ps, logicalAND(ps, i))

\* Parser.logicalAND
logicalANDOf(ps, l) ==
    IF ~l.ok THEN l
    ELSE IF peek(ps, l.i, {"&&"}) THEN binaryFn(l.node, "&&", logicalAND(ps, l.i + 1))
    ELSE l

logicalAND(ps, i) == logicalANDOf(ps, equality(ps, i))

\* Parser.equality
equalityOf(ps, l) ==
    IF ~l.ok THEN l
    ELSE IF peek(ps, l.i, {"==", "!=", "===", "!=="})
    THEN binaryFn(l.node, ps.toks[l.i].text, equality(ps, l.i + 1))
    ELSE l

equality(ps, i) == equalityOf(ps, relational(ps, i))

\* Parser.relational
relationalOf(ps, l) ==
    IF ~l.ok THEN l
    ELSE IF peek(ps, l.i, {"<", ">", "<=", ">="})
    THEN binaryFn(l.node, ps.toks[l.i].text, relational(ps, l.i + 1))
    ELSE l

relational(ps, i) == relationalOf(ps, additive(ps, i))

\* Parser.additive
additiveLoop(ps, l) ==
    IF ~l.ok THEN l
    ELSE IF peek(ps, l.i, {"+", "-"})
    THEN additiveLoop(ps, binaryFn(l.node, ps.toks[l.i].text,
                                   multiplicative(ps, l.i + 1)))
    ELSE l

additive(ps, i) == additiveLoop(ps, multiplicative(ps, i))

\* Parser.multiplicative
multiplicativeLoop(ps, l) ==
    IF ~l.ok THEN l
    ELSE IF peek(ps, l.i, {"*", "/", "%"})
    THEN multiplicativeLoop(ps, binaryFn(l.node, ps.toks[l.i].text, unary(ps, l.i + 1)))
    ELSE l

multiplicative(ps, i) == multiplicativeLoop(ps, unary(ps, i))

\* Parser.unary
unary(ps, i) ==
    IF peek(ps, i, {"+"}) THEN primary(ps, i + 1)
    ELSE IF peek(ps, i, {"-"}) THEN binaryFn(ZERO, "-", unary(ps, i + 1))
    ELSE IF peek(ps, i, {"!"}) THEN unaryFn("!", unary(ps, i + 1))
    ELSE primary(ps, i)

\* Parser.fieldAccess(object): `field = this.expect().text`
parseFieldAccess(ps, object, i) ==
    IF i > Len(ps.toks)
    THEN Failed(TypeError("Cannot read property 'split' of undefined"))
    ELSE Parsed(MemberNode(object, IF ps.toks[i].kind \in {"ident", "name"}
                                   THEN ps.toks[i].path ELSE <<ps.toks[i].text>>),
                i + 1)

\* Parser.objectIndex(obj): `indexFn = this.expression(); this.consume("]")`
objectIndexClose(ps, obj, r) ==
    IF ~r.ok THEN r ELSE consume(ps, Parsed(ElemNode(obj, r.node), r.i), "]")

parseObjectIndex(ps, obj, i) == objectIndexClose(ps, obj, expression(ps, i))

\* Parser.functionCall(fn, contextGetter): with disallowFunctionCalls it
\* calls `this.throwError("Function calls are not allowed")`, without a token
callArgs(ps, fn, hasContext, context, args, r) ==
    IF ~r.ok THEN r
    ELSE IF peek(ps, r.i, {","})
    THEN callArgs(ps, fn, hasContext, context, Append(args, r.node),
                  expression(ps, r.i + 1))
    ELSE consume(ps, Parsed(InvokeNode(fn, hasContext, context, Append(args, r.node)),
                            r.i), ")")

parseFunctionCall(ps, fn, hasContext, context, i) ==
    IF ps.opts.disallowFunctionCalls THEN Failed(throwErrorNoToken)
    ELSE IF i > Len(ps.toks) THEN Failed(ueoe)
    ELSE IF ps.toks[i].text # ")"
    THEN callArgs(ps, fn, hasContext, context, <<>>, expression(ps, i))
    ELSE consume(ps, Parsed(InvokeNode(fn, hasContext, context, <<>>), i), ")")

\* Parser.primary, the loop over `(`, `[` and `.` after the primary r
primaryLoop(ps, hasContext, context, r) ==
    IF ~r.ok THEN r
    ELSE IF peek(ps, r.i, {"("})
    THEN primaryLoop(ps, FALSE, NoNode,
                     parseFunctionCall(ps, r.node, hasContext, context, r.i + 1))
    ELSE IF peek(ps, r.i, {"["})
    THEN primaryLoop(ps, TRUE, r.node, parseObjectIndex(ps, r.node, r.i + 1))
    ELSE IF peek(ps, r.i, {"."})
    THEN primaryLoop(ps, TRUE, r.node, parseFieldAccess(ps, r.node, r.i + 1))
    ELSE r

primaryParen(ps, r) == IF ~r.ok THEN r ELSE consume(ps, r, ")")

\* Parser.primary
primary(ps, i) ==
    IF peek(ps, i, {"("})
    THEN primaryLoop(ps, FALSE, NoNode, primaryParen(ps, filterChain(ps, i + 1)))
    ELSE IF i > Len(ps.toks) \/ ~HasFn(ps.toks[i])
    THEN Failed(throwErrorAt(ps, "not a primary expression", i))
    ELSE primaryLoop(ps, FALSE, NoNode, Parsed(tokenFn(ps.toks[i]), i + 1))

\* Parser.parse(text) after the lexer: the statements, and the check that no
\* token is left
parseTokens(ps, r) ==
    IF ~r.ok THEN r
    ELSE IF r.i <= Len(ps.toks)
    THEN Failed(throwErrorAt(ps, "is an unexpected token", r.i))
    ELSE r

----------------------------------------------------------------------------
(* The operators of OPERATORS on values.  The operands of the sources are   *)
(* numbers, booleans, null and undefined; `/`, `^` and `&` are not used.    *)

\* the operands JavaScript converts to a number other than NaN
IsNumeric(v) == v[1] \in {"num", "bool", "null"}
ToNumber(v) == IF v[1] = "null" THEN 0 ELSE v[2]

\* `typeof value !== "undefined"`
isDefined(v) == v[1] # "undef"

Abs(n) == IF n < 0 THEN 0 - n ELSE n

\* `a % b`: the sign of the dividend, NaN for a zero divisor
Remainder(a, b) ==
    IF b = 0 THEN NaN
    ELSE Num((IF a < 0 THEN 0 - 1 ELSE 1) * (Abs(a) % Abs(b)))

\* `a + b`, `a - b`, `a * b`, `a % b` of JavaScript
Arith(f, a, b) ==
    IF a[1] = "str" /\ b[1] = "str" /\ f = "+" THEN Str(a[2] \o b[2])
    ELSE IF ~(IsNumeric(a) /\ IsNumeric(b)) THEN NaN
    ELSE IF f = "+" THEN Num(ToNumber(a) + ToNumber(b))
    ELSE IF f = "-" THEN Num(ToNumber(a) - ToNumber(b))
    ELSE IF f = "*" THEN Num(ToNumber(a) * ToNumber(b))
    ELSE Remainder(ToNumber(a), ToNumber(b))

\* `a === b`
StrictEquals(a, b) == a[1] = b[1] /\ a[1] # "nan" /\ a[2] = b[2]

\* `a < b`, false when an operand converts to NaN
Less(a, b) == IsNumeric(a) /\ IsNumeric(b) /\ ToNumber(a) < ToNumber(b)
LessEq(a, b) == IsNumeric(a) /\ IsNumeric(b) /\ ToNumber(a) <= ToNumber(b)

\* OPERATORS with `+` and `-` as the plain operators of JavaScript
OPERATORSPlain(f, a, b) ==
    CASE f \in {"+", "-", "*", "%"} -> Arith(f, a, b)
      [] f \in {"===", "=="} -> Bool(StrictEquals(a, b))
      [] f \in {"!==", "!="} -> Bool(~StrictEquals(a, b))
      [] f = "<" -> Bool(Less(a, b))
      [] f = ">" -> Bool(Less(b, a))
      [] f = "<=" -> Bool(LessEq(a, b))
      [] f = ">=" -> Bool(LessEq(b, a))
      [] f \in {"&&", "||"} -> b

\* OPERATORS[f] applied to the values a and b of its operands
OPERATORS(f, a, b) ==
    CASE f = "+" -> IF isDefined(a)
                    THEN (IF isDefined(b) THEN Arith("+", a, b) ELSE a)
                    ELSE (IF isDefined(b) THEN b ELSE Undef)
      [] f = "-" -> Arith("-", IF isDefined(a) THEN a ELSE Num(0),
                          IF isDefined(b) THEN b ELSE Num(0))
      [] f \in {"*", "%"} -> Arith(f, a, b)
      [] f \in {"===", "=="} -> Bool(StrictEquals(a, b))
      [] f \in {"!==", "!="} -> Bool(~StrictEquals(a, b))
      [] f = "<" -> Bool(Less(a, b))
      [] f = ">" -> Bool(Less(b, a))
      [] f = "<=" -> Bool(LessEq(a, b))
      [] f = ">=" -> Bool(LessEq(b, a))
      [] f \in {"&&", "||"} -> b

\* the filters the caller registers: functions of the input and the
\* arguments
FilterNames == {"p", "q", "r"}

FilterApply(name, args) ==
    CASE name = "p" -> args[1]
      [] name = "q" -> args[Len(args)]
      [] name = "r" -> Arith("-", args[1], IF Len(args) >= 2 THEN args[2] ELSE Undef)

----------------------------------------------------------------------------
(* Evaluation of the closures: the outcome is the value or the error, the   *)
(* heap left behind and the accesses made                                   *)

\* the outcome r of an evaluation that left the heap h as it was
Reading(r, h) == SetOut(r.kind, r.v, r.err, h, r.tr)

Ok(v, h, tr) == SetOut("value", v, NoErr, h, tr)
Err(e, h, tr) == SetOut("throw", Undef, e, h, tr)

\* the outcome rb of a step made after the step ra
Seqn(ra, rb) == [rb EXCEPT !.tr = ra.tr \o @]

\* an outcome without its heap
Outcome(r) == [v |-> r.v, tr |-> r.tr, kind |-> r.kind, err |-> r.err]

\* the property key `o[i]` uses for the value i
KeyOf(v) == CASE v[1] = "str" -> v[2]
              [] v[1] = "undef" -> "undefined"
              [] v[1] = "null" -> "null"
              [] v = Num(0) -> "0"
              [] v = Num(1) -> "1"
              [] v = Num(2) -> "2"

RECURSIVE evalNode(_, _, _, _)
RECURSIVE evalArgs(_, _, _, _, _)
RECURSIVE evalStatements(_, _, _, _, _)

\* the arguments of a call or a filter, from left to right: r holds the
\* values so far in r.v
evalArg(args, i, scope, locals, r, ra) ==
    IF ra.kind = "throw" THEN Seqn(r, ra)
    ELSE evalArgs(args, i + 1, scope, locals,
                  SetOut("value", Append(r.v, ra.v), NoErr, ra.h, r.tr \o ra.tr))

evalArgs(args, i, scope, locals, r) ==
    IF i > Len(args) THEN r
    ELSE evalArg(args, i, scope, locals, r, evalNode(r.h, args[i], scope, locals))

\* the closure of Parser.statements: the value of the last statement
evalStatements(s, i, scope, locals, r) ==
    IF r.kind = "throw" \/ i > Len(s) THEN r
    ELSE evalStatements(s, i + 1, scope, locals,
                        Seqn(r, evalNode(r.h, s[i], scope, locals)))

\* OPERATORS['!']
unaryValue(ra) ==
    IF ra.kind = "throw" THEN ra ELSE Ok(Bool(~Truthy(ra.v)), ra.h, ra.tr)

\* OPERATORS[f] of a binary operator: both operands are evaluated, the right
\* one of `&&` and `||` only when the left one does not decide
binaryValue(f, ra, rb) ==
    IF rb.kind = "throw" THEN Seqn(ra, rb)
    ELSE Ok(OPERATORS(f, ra.v, rb.v), rb.h, ra.tr \o rb.tr)

binaryRight(node, scope, locals, ra) ==
    IF ra.kind = "throw" THEN ra
    ELSE IF node.f = "&&" /\ ~Truthy(ra.v) THEN ra
    ELSE IF node.f = "||" /\ Truthy(ra.v) THEN ra
    ELSE binaryValue(node.f, ra, evalNode(ra.h, node.b, scope, locals))

\* Parser.ternaryFn
ternaryValue(node, scope, locals, ra) ==
    IF ra.kind = "throw" THEN ra
    ELSE Seqn(ra, evalNode(ra.h, IF Truthy(ra.v) THEN node.b ELSE node.c,
                           scope, locals))

\* filterInvoke with the input passed after the arguments
filterInvokeInputLast(node, ra, rs) ==
    IF rs.kind = "throw" THEN Err(rs.err, rs.h, ra.tr \o rs.tr)
    ELSE IF ~node.known
    THEN Err(TypeError("Cannot read property 'apply' of undefined"), rs.h,
             ra.tr \o rs.tr)
    ELSE Ok(FilterApply(node.name, rs.v \o <<ra.v>>), rs.h,
            Append(ra.tr \o rs.tr,
                   <<"filter", rs.v \o <<ra.v>>, node.name,
                     FilterApply(node.name, rs.v \o <<ra.v>>)>>))

\* OPERATORS['|'] and the fnInvoke of Parser.filter: the input, then the
\* arguments, then `fn.apply(self, args)`
filterInvoke(node, ra, rs) ==
    IF rs.kind = "throw" THEN Err(rs.err, rs.h, ra.tr \o rs.tr)
    ELSE IF ~node.known
    THEN Err(TypeError("Cannot read property 'apply' of undefined"), rs.h,
             ra.tr \o rs.tr)
    ELSE Ok(FilterApply(node.name, <<ra.v>> \o rs.v), rs.h,
            Append(ra.tr \o rs.tr,
                   <<"filter", <<ra.v>> \o rs.v, node.name,
                     FilterApply(node.name, <<ra.v>> \o rs.v)>>))

filterValue(node, scope, locals, ra) ==
    IF ra.kind = "throw" THEN ra
    ELSE filterInvoke(node, ra, evalArgs(node.args, 1, scope, locals,
                                         SetOut("value", <<>>, NoErr, ra.h, <<>>)))

\* the assign of Parser.fieldAccess: `setter(object(scope, locals), field, ..)`
memberAssign(field, value, locals, o) ==
    IF o.kind = "throw" THEN o
    ELSE Seqn(o, setter(o.h, o.v, field, value, locals))

\* the assign of Parser.objectIndex: the key, then the object
elemAssignObj(key, value, locals, o) ==
    objectIndexAssignOf(o.h, key, value, getRuntimeHooks(locals), Outcome(o))

elemAssignKey(left, value, scope, locals, k) ==
    IF k.kind = "throw" THEN k
    ELSE Seqn(k, elemAssignObj(KeyOf(k.v), value, locals,
                               evalNode(k.h, left.a, scope, locals)))

\* `left.assign(scope, value, locals)`
assignInto(h, left, value, scope, locals) ==
    IF left.op = "path" THEN setter(h, scope, left.p, value, locals)
    ELSE IF left.op = "member"
    THEN memberAssign(left.field, value, locals, evalNode(h, left.a, scope, locals))
    ELSE elemAssignKey(left, value, scope, locals, evalNode(h, left.b, scope, locals))

\* the closure of Parser.assignment, rv the outcome of `right(scope, locals)`
assignValue(left, scope, locals, rv) ==
    IF rv.kind = "throw" THEN rv
    ELSE Seqn(rv, assignInto(rv.h, left, rv.v, scope, locals))

\* the closure of Parser.fieldAccess called without self
memberValue(field, o) ==
    IF o.kind = "throw" THEN o
    ELSE Reading(fieldAccessOf(o.h, field, Outcome(o)), o.h)

\* the closure of Parser.objectIndex: the object, then the index
elemIndex(locals, o, ri) ==
    IF ri.kind = "throw" THEN Seqn(o, ri)
    ELSE Reading(objectIndexOf(ri.h, KeyOf(ri.v), locals, getRuntimeHooks(locals),
                               Val(o.v, o.tr \o ri.tr)), ri.h)

elemValue(node, scope, locals, o) ==
    IF o.kind = "throw" THEN o
    ELSE elemIndex(locals, o, evalNode(o.h, node.b, scope, locals))

\* `fn(scope, locals, context)`: only the closure of Parser.fieldAccess
\* looks at its third argument
invokeTarget(h, fn, scope, locals, context) ==
    IF fn.op = "member" /\ Truthy(context)
    THEN Reading(getterEval(h, fn.field, context, UndefLocals), h)
    ELSE evalNode(h, fn, scope, locals)

\* the closure of Parser.functionCall: the context, the arguments, the
\* target, the guards and the call
invokeCall(c, ra, f) ==
    IF f.kind = "throw" THEN Err(f.err, f.h, c.tr \o ra.tr \o f.tr)
    ELSE Reading(callFnPtr(f.h, c.v, IF Truthy(f.v) THEN f.v ELSE noop,
                           c.tr \o ra.tr \o f.tr), f.h)

invokeArgs(node, scope, locals, c, ra) ==
    IF ra.kind = "throw" THEN Err(ra.err, ra.h, c.tr \o ra.tr)
    ELSE invokeCall(c, ra, invokeTarget(ra.h, node.fn, scope, locals, c.v))

invokeContext(node, scope, locals, c) ==
    IF c.kind = "throw" THEN c
    ELSE invokeArgs(node, scope, locals, c,
                    evalArgs(node.args, 1, scope, locals,
                             SetOut("value", <<>>, NoErr, c.h, <<>>)))

evalNode(h, node, scope, locals) ==
    CASE node.op = "const" -> Ok(node.v, h, <<>>)
      [] node.op = "path" -> Reading(getterEval(h, node.p, scope, locals), h)
      \* an operator function called as a primary: its operand `a` is undefined
      [] node.op = "operator" -> Err(TypeError("a is not a function"), h, <<>>)
      [] node.op = "unary" -> unaryValue(evalNode(h, node.a, scope, locals))
      [] node.op = "binary" ->
            binaryRight(node, scope, locals, evalNode(h, node.a, scope, locals))
      [] node.op = "ternary" ->
            ternaryValue(node, scope, locals, evalNode(h, node.a, scope, locals))
      [] node.op = "filter" ->
            filterValue(node, scope, locals, evalNode(h, node.a, scope, locals))
      [] node.op = "assignTo" ->
            assignValue(node.a, scope, locals, evalNode(h, node.b, scope, locals))
      [] node.op = "member" -> memberValue(node.field, evalNode(h, node.a, scope, locals))
      [] node.op = "elem" ->
            elemValue(node, scope, locals, evalNode(h, node.a, scope, locals))
      [] node.op = "invoke" ->
            invokeContext(node, scope, locals,
                          IF node.hasContext
                          THEN evalNode(h, node.context, scope, locals)
                          ELSE Ok(scope, h, <<>>))
      [] node.op = "statements" ->
            evalStatements(node.s, 1, scope, locals, Ok(Undef, h, <<>>))

----------------------------------------------------------------------------
(* Compilation and evaluation of a source *)

\* the identifier tokens of a source, in the order Lexer.lex reads them
Idents(src) ==
    IF src.op = "text" THEN TokenIdents(src.toks)
    ELSE IF src.op \in {"field", "callm"} THEN <<src.q, src.p>>
    ELSE IF src.op \in {"index", "indexAssign", "callidx"} THEN <<src.q>>
    ELSE <<src.p>>

\* Lexer.readIdent calls getterFn for each identifier token (and
\* Parser.fieldAccess again for the field, by then cached); the first one
\* that throws ends the compilation
RECURSIVE lexIdents(_, _, _)
lexIdents(gcache, idents, i) ==
    IF i > Len(idents) THEN [cache |-> gcache, ok |-> TRUE]
    ELSE IF getterFnThrows(gcache, idents[i]) THEN [cache |-> gcache, ok |-> FALSE]
    ELSE lexIdents(getterFnStore(gcache, idents[i]), idents, i + 1)

\* Parser.parse(text) of a source given by its identifier tokens
parse(gcache, src) ==
    LET r == lexIdents(gcache, Idents(src), 1)
    IN  IF ~r.ok THEN [cache |-> r.cache, err |-> ensureSafeMemberNameErr, ok |-> FALSE]
        \* Parser.assignment: the closure of functionCall has no `assign`
        ELSE IF src.op = "callAssign"
        THEN [cache |-> r.cache,
              err |-> throwError("Token '=' implies assignment but [p()] can not be assigned to"),
              ok |-> FALSE]
        ELSE [cache |-> r.cache, err |-> NoErr, ok |-> TRUE]

\* Parser.parse(text) of a source given by its words, r the outcome of the
\* lexer and s the production of the statements
parseText(r, s) ==
    IF ~r.ok
    THEN [cache |-> r.cache, err |-> ensureSafeMemberNameErr, ok |-> FALSE, expr |-> NoSrc]
    ELSE [cache |-> r.cache, err |-> s.err, ok |-> s.ok,
          expr |-> IF s.ok THEN s.node ELSE NoSrc]

\* a source given by its identifier tokens, r its parse: Parser.functionCall
\* throws under disallowFunctionCalls
parseForm(src, options, r) ==
    IF r.ok /\ options.disallowFunctionCalls
            /\ src.op \in {"call", "callm", "callidx", "callAssign"}
    THEN [cache |-> r.cache, err |-> throwErrorNoToken, ok |-> FALSE, expr |-> NoSrc]
    ELSE [cache |-> r.cache, err |-> r.err, ok |-> r.ok,
          expr |-> IF r.ok THEN src ELSE NoSrc]

\* `new Parser(lexer, options).parse(src)`
parseWith(gcache, src, options) ==
    IF src.op = "text"
    THEN parseText(lexIdents(gcache, Idents(src), 1),
                   parseTokens([toks |-> src.toks, opts |-> options],
                               statements([toks |-> src.toks, opts |-> options])))
    ELSE parseForm(src, options, parse(gcache, src))

\* the compiled expression of src applied to (scope, locals)
evalExpr(h, src, scope, locals) ==
    IF src.op \in NodeOps
    THEN evalNode(h, src, scope, locals)
    ELSE IF src.op = "path"
    THEN Reading(getterEval(h, src.p, scope, locals), h)
    ELSE IF src.op = "field"
    THEN Reading(fieldAccess(h, src.q, src.p, scope, locals, Undef), h)
    ELSE IF src.op \in {"call", "callm", "callidx"}
    THEN Reading(functionCall(h, src, scope, locals), h)
    ELSE IF src.op = "index"
    THEN Reading(objectIndex(h, src.q, src.p[1], scope, locals), h)
    ELSE IF src.op = "indexAssign"
    THEN objectIndexAssign(h, src.q, src.p[1], src.rhs, scope, locals)
    \* Parser.assignment: `left.assign(scope, right(scope, locals), locals)`,
    \* the assign of an identifier token being setter(self, ident, value, ..)
    ELSE setter(h, scope, src.p, src.rhs, locals)

----------------------------------------------------------------------------
(* State *)

\* the last call of compileExpression: its source, whether it was given the
\* cache, whether it ran the parser, and the expression or the error it gave
NoCompile == [err |-> NoErr, src |-> NoSrc, ok |-> FALSE,
              expr |-> NoSrc, options |-> DefaultOptions, withCache |-> FALSE, parsed |-> FALSE]

NoEval == [v |-> Undef, locals |-> UndefLocals, tr |-> <<>>, kind |-> "",
           err |-> NoErr, scope |-> Undef, on |-> FALSE, pre |-> <<>>,
           earlier |-> FALSE]

PathKeys == <<"a", "b", "c", "d", "e", "f">>

\* the scope {a: {b: ... {k_n: leaf}}} of n nested keys
ChainHeap(n, leaf) ==
    [o \in ObjIds |->
        IF o < n THEN {<<PathKeys[o], Ref(o + 1)>>}
        ELSE IF o = n THEN ObjPut(EmptyObj, PathKeys[o], leaf)
        ELSE EmptyObj]

\* `cached = cache[src] = parser.parse(src)` left without the store
cacheSkipStore(c, src, expr) == c

\* `cached = cache[src] = parser.parse(src)`
cacheStore(c, src, expr) == c @@ (src :> expr)

\* the parser runs of the calls given the cache, counted by source
CountParse(n, src) ==
    IF src \in DOMAIN n THEN [n EXCEPT ![src] = @ + 1] ELSE n @@ (src :> 1)

ParsesOf(n, src) == IF src \in DOMAIN n THEN n[src] ELSE 0

\* compileExpression(src, options, cache), r the parse of src
compiledAs(src, options, withCache, r) ==
    /\ withCache => ParsesOf(parses, src) < MaxParses
    /\ IF withCache /\ src \in DOMAIN cache
       THEN /\ compiled' = [err |-> NoErr, src |-> src, ok |-> TRUE,
                            expr |-> cache[src], options |-> options, withCache |-> TRUE,
                            parsed |-> FALSE]
            /\ UNCHANGED <<getterFnCache, cache, parses>>
       ELSE /\ getterFnCache' = r.cache
            /\ compiled' = [err |-> r.err, src |-> src, ok |-> r.ok,
                            expr |-> r.expr, options |-> options, withCache |-> withCache,
                            parsed |-> TRUE]
            /\ cache' = IF withCache /\ r.ok THEN cacheStore(cache, src, r.expr)
                        ELSE cache
            /\ parses' = IF withCache THEN CountParse(parses, src) ELSE parses
    /\ ev' = NoEval
    /\ UNCHANGED <<heap, literal, binding, aside>>

\* Operation: compileExpression(src, options, cache), withCache telling
\* whether the caller passed its cache
compileWith(src, options, withCache) ==
    compiledAs(src, options, withCache, parseWith(getterFnCache, src, options))

\* Operation: compileExpression(src, undefined, cache)
compileExpression(src, withCache) == compileWith(src, DefaultOptions, withCache)

\* the path segments of the tokens from i on: the objects the assignments
\* of the source can create
RECURSIVE Segments(_, _)
Segments(toks, i) ==
    IF i > Len(toks) THEN 0 ELSE Len(toks[i].path) + Segments(toks, i + 1)

\* the state after an evaluation of outcome r
Evaluated(scope, locals, r) ==
    /\ heap' = IF r.h = heap THEN heap ELSE Collect(r.h)
    /\ ev' = [v |-> r.v, locals |-> locals, tr |-> r.tr, kind |-> r.kind,
              err |-> r.err, scope |-> scope, on |-> TRUE, pre |-> heap,
              earlier |-> ev.earlier \/ CarriesHooks(ev.locals)]

\* Operation: the compiled expression is called with (scope, locals)
Evaluate(scope, locals) ==
    /\ compiled.ok
    /\ compiled.expr.op = "assign" => FreeIds(heap) >= Len(compiled.expr.p)
    /\ compiled.src.op = "text" => FreeIds(heap) >= Segments(compiled.src.toks, 1)
    /\ Evaluated(scope, locals, evalExpr(heap, compiled.expr, scope, locals))
    /\ UNCHANGED <<getterFnCache, compiled, cache, parses, literal, binding, aside>>

----------------------------------------------------------------------------
(* parseObjectLiteral: the scan over the tokens of an object-literal string *)

\* A token of str.match(bindingToken): its text, its first character
\* (tok.charCodeAt(0)) and its text without its first and last character
\* (tok.slice(1, -1)).  The texts hold no slash, so that the re-parse of a
\* division is not taken.
Tok(text, c, body) == [c |-> c, text |-> text, body |-> body]

\* the token a single character or a text without special characters makes
Plain(text, c) == Tok(text, c, "")

\* a string in single quotes
Quoted(body) == Tok("'" \o body \o "'", "'", body)

CommaTok == Plain(",", ",")

ColonTok == Plain(":", ":")

\* values.join('')
RECURSIVE Join(_, _)
Join(values, i) ==
    IF i > Len(values) THEN "" ELSE values[i].text \o Join(values, i + 1)

\* the variables of the loop: key and values are falsy when they are "" and
\* <<>> (undefined before the first pair, 0 after a pair has ended)
ScanStart == [key |-> "", values |-> <<>>, depth |-> 0, result |-> <<>>]

\* { key: key, value: values.join('') } or { 'unknown': key, value: undefined }
Entry(key, values) ==
    IF values # <<>> THEN [key |-> key, value |-> Join(values, 1)]
    ELSE [unknown |-> key]

\* the comma that ends a pair at depth zero or below
endPair(st) ==
    [key |-> "", values |-> <<>>, depth |-> 0,
     result |-> IF st.key # "" THEN Append(st.result, Entry(st.key, st.values))
                ELSE st.result]

\* values.push(tok) after the change d of the depth
pushValue(st, tok, d) ==
    [st EXCEPT !.values = Append(@, tok), !.depth = @ + d]

\* a scan that ends the pair at every comma
scanTokenFlat(st, tok) ==
    IF tok.c = "," THEN endPair(st)
    ELSE IF tok.c = ":" THEN IF st.values = <<>> THEN st ELSE pushValue(st, tok, 0)
    ELSE IF tok.c \in {"(", "{", "["} THEN pushValue(st, tok, 1)
    ELSE IF tok.c \in {")", "}", "]"} THEN pushValue(st, tok, -1)
    ELSE IF st.key = "" /\ st.values = <<>>
         THEN [st EXCEPT !.key = IF tok.c \in {"\"", "'"} THEN tok.body ELSE tok.text]
    ELSE pushValue(st, tok, 0)

\* one turn of the loop over the tokens
scanToken(st, tok) ==
    IF tok.c = ","
    THEN IF st.depth <= 0 THEN endPair(st) ELSE pushValue(st, tok, 0)
    ELSE IF tok.c = ":" THEN IF st.values = <<>> THEN st ELSE pushValue(st, tok, 0)
    ELSE IF tok.c \in {"(", "{", "["} THEN pushValue(st, tok, 1)
    ELSE IF tok.c \in {")", "}", "]"} THEN pushValue(st, tok, -1)
    ELSE IF st.key = "" /\ st.values = <<>>
         THEN [st EXCEPT !.key = IF tok.c \in {"\"", "'"} THEN tok.body ELSE tok.text]
    ELSE pushValue(st, tok, 0)

RECURSIVE scan(_, _, _)
scan(toks, i, st) ==
    IF i > Len(toks) THEN st ELSE scan(toks, i + 1, scanToken(st, toks[i]))

\* parseObjectLiteral(str), toks the tokens of the trimmed str
parseObjectLiteral(toks) ==
    IF toks = <<>> THEN <<>> ELSE scan(Append(toks, CommaTok), 1, ScanStart).result

\* no call of parseObjectLiteral
NoLiteral == [toks |-> <<>>, on |-> FALSE, result |-> <<>>, pairs |-> <<>>]

\* Operation: parseObjectLiteral on the tokens of the given text
ParseLiteral ==
    /\ ~literal.on
    /\ literal.toks # <<>>
    /\ literal' = [literal EXCEPT !.on = TRUE,
                                  !.result = parseObjectLiteral(literal.toks)]
    /\ UNCHANGED <<heap, getterFnCache, compiled, ev, cache, parses, binding, aside>>

----------------------------------------------------------------------------
(* The if binding: IfDirective on an element whose children are the template *)

\* the most values the bound observable is sent
MaxSent == 3

\* the most applications of the binding to the element
MaxApplies == 2

\* No binding: an element without children and no observable.  The fields
\* are the observable (kind: an observable property or a subject; value: the
\* value it holds or was sent last), the children of the element (content),
\* the closure of apply (template, initialApply) while it is subscribed
\* (applied), and the history: whether and which value was delivered to the
\* subscription (delivered, last), the template of the first application
\* (captured, first), the counts of applications and of values sent, and
\* whether a value was sent after the binding was disposed (late).
NoBinding ==
    [kind |-> "none", value |-> Undef, inverse |-> FALSE, content |-> <<>>,
     applied |-> FALSE, initialApply |-> FALSE, template |-> <<>>,
     delivered |-> FALSE, last |-> Undef, captured |-> FALSE, first |-> <<>>,
     applies |-> 0, sent |-> 0, late |-> FALSE]

\* an element with the given children, to be bound to an observable
Unbound(kind, inverse, value, content) ==
    [NoBinding EXCEPT !.kind = kind, !.inverse = inverse, !.value = value,
                      !.content = content]

\* applyValue with a falsy value that leaves the children in place
applyValueKeep(b, value) ==
    LET template == IF b.initialApply THEN b.template \o b.content ELSE b.template
        cleared == IF b.initialApply THEN <<>> ELSE b.content
        shown == IF b.inverse THEN ~Truthy(value) ELSE Truthy(value)
    IN  [b EXCEPT !.template = template,
                  !.content = IF shown THEN cleared \o template ELSE cleared]

\* applyValue(el, value, template, ctx, initialApply): the first call moves
\* clones of the children to the template; a falsy value removes the children
\* and any other appends a clone of every template node
applyValue(b, value) ==
    LET template == IF b.initialApply THEN b.template \o b.content ELSE b.template
        cleared == IF b.initialApply THEN <<>> ELSE b.content
        shown == IF b.inverse THEN ~Truthy(value) ELSE Truthy(value)
    IN  [b EXCEPT !.template = template,
                  !.content = IF shown THEN cleared \o template ELSE <<>>]

\* the callback apply subscribes: applyValue, then initialApply = false
onValue(b, x) ==
    LET a == applyValue(b, x)
    IN  [a EXCEPT !.initialApply = FALSE, !.delivered = TRUE, !.last = x,
                  !.captured = TRUE,
                  !.first = IF b.captured THEN b.first ELSE a.template]

\* Operation: IfDirective.apply on the element (an element node, options
\* given); an observable property delivers its value as it is subscribed
ApplyIf ==
    /\ binding.kind # "none"
    /\ ~binding.applied
    /\ binding.applies < MaxApplies
    /\ LET b == [binding EXCEPT !.applied = TRUE, !.initialApply = TRUE,
                                !.template = <<>>, !.delivered = FALSE,
                                !.applies = @ + 1]
       IN  binding' = IF b.kind = "property" THEN onValue(b, b.value) ELSE b
    /\ UNCHANGED <<heap, getterFnCache, compiled, ev, cache, parses, literal, aside>>

\* Operation: the observable is sent x, prop(x) or obs.onNext(x); a property
\* is sent a value other than the one it holds
SendValue(x) ==
    /\ binding.kind # "none"
    /\ binding.sent < MaxSent
    /\ binding.kind = "property" => x # binding.value
    /\ LET b == [binding EXCEPT !.value = x, !.sent = @ + 1,
                                !.late = @ \/ (~binding.applied /\ binding.applies > 0)]
       IN  binding' = IF b.applied THEN onValue(b, x) ELSE b
    /\ UNCHANGED <<heap, getterFnCache, compiled, ev, cache, parses, literal, aside>>

\* Operation: wx.cleanNode(el) disposes the subscription and the closure
DisposeIf ==
    /\ binding.applied
    /\ binding' = [binding EXCEPT !.applied = FALSE, !.template = <<>>,
                                  !.initialApply = FALSE]
    /\ UNCHANGED <<heap, getterFnCache, compiled, ev, cache, parses, literal, aside>>

----------------------------------------------------------------------------
(* Weak maps: WeakMapEmulated beside a native WeakMap *)

\* getOid(key): the id kept on the object, one per object
getOid(key) == key[2]

\* the value the native WeakMap.prototype.set returns: the map itself
ThisMap == <<"map", 0>>

\* no weak map made
NoWeakMap ==
    [key |-> Undef, op |-> "", on |-> FALSE, inner |-> {}, native |-> {},
     held |-> FALSE, emulated |-> Undef, builtin |-> Undef]

\* createWeakMap(true) and new WeakMap(): both empty, no call made
NewWeakMap == [NoWeakMap EXCEPT !.on = TRUE]

\* `this.inner.hasOwnProperty(oid)`
hasOwn(inner, oid) == \E p \in inner : p[1] = oid

\* `this.inner[oid]`
innerGet(inner, oid) ==
    IF hasOwn(inner, oid) THEN (CHOOSE p \in inner : p[1] = oid)[2] ELSE Undef

\* `this.inner[oid] = value`
innerSet(inner, oid, value) == {p \in inner : p[1] # oid} \cup {<<oid, value>>}

\* `delete this.inner[oid]`
innerDelete(inner, oid) == {p \in inner : p[1] # oid}

\* the value of `delete this.inner[oid]`: true for a property that can be
\* deleted and for one that is not there
emulatedDelete(inner, oid) == True

\* the call op(key, value) on both maps: the entries after it and what each
\* map returned
WeakCall(op, key, inner, native, emulated, builtin) ==
    /\ weakMap.on
    /\ weakMap' = [key |-> key, op |-> op, on |-> TRUE, inner |-> inner,
                   native |-> native, held |-> hasOwn(weakMap.native, key),
                   emulated |-> emulated, builtin |-> builtin]
    /\ UNCHANGED <<heap, getterFnCache, compiled, ev, cache, parses, literal, binding,
                   virtual, lexer, router>>

\* Operation: set(key, value)
WeakSet(key, value) ==
    WeakCall("set", key, innerSet(weakMap.inner, getOid(key), value),
             {p \in weakMap.native : p[1] # key} \cup {<<key, value>>},
             Undef, ThisMap)

\* Operation: get(key)
WeakGet(key) ==
    WeakCall("get", key, weakMap.inner, weakMap.native,
             innerGet(weakMap.inner, getOid(key)),
             IF \E p \in weakMap.native : p[1] = key
             THEN (CHOOSE p \in weakMap.native : p[1] = key)[2] ELSE Undef)

\* Operation: has(key)
WeakHas(key) ==
    WeakCall("has", key, weakMap.inner, weakMap.native,
             Bool(hasOwn(weakMap.inner, getOid(key))),
             Bool(\E p \in weakMap.native : p[1] = key))

\* Operation: delete(key)
WeakDelete(key) ==
    WeakCall("delete", key, innerDelete(weakMap.inner, getOid(key)),
             {p \in weakMap.native : p[1] # key},
             emulatedDelete(weakMap.inner, getOid(key)),
             Bool(\E p \in weakMap.native : p[1] = key))

----------------------------------------------------------------------------
(* VirtualChildNodes: the proxy array beside the child nodes of the target *)

\* the most child nodes of the target node
MaxChildren == 3

\* the nodes; `undefined` in the place of a node is NoNodeRef
NodeIds == 1 .. MaxChildren

NoNodeRef == 0

\* No instance.  The fields are the child nodes of the target node (dom),
\* the proxy array (childNodes), whether the callbacks were given, and of the
\* last call: its name, the nodes it was given or was to remove (given), the
\* nodes passed to insertCB and to removeCB, and whether it threw; gaveNone
\* tells whether some call was given no nodes.
NoVirtual ==
    [op |-> "", on |-> FALSE, dom |-> <<>>, childNodes |-> <<>>,
     insertCB |-> FALSE, removeCB |-> FALSE, given |-> <<>>, inserted |-> <<>>,
     removed |-> <<>>, threw |-> FALSE, gaveNone |-> FALSE]

\* new VirtualChildNodes(targetNode, true, insertCB, removeCB)
NewVirtual(dom, insertCB, removeCB) ==
    [NoVirtual EXCEPT !.on = TRUE, !.dom = dom, !.childNodes = dom,
                      !.insertCB = insertCB, !.removeCB = removeCB]

\* array.slice(index, index + count)
Slice(a, index, count) ==
    SubSeq(a, index + 1, IF index + count > Len(a) THEN Len(a) ELSE index + count)

\* array.splice(index, count, ...nodes)
Splice(a, index, count, nodes) ==
    SubSeq(a, 1, index) \o nodes
        \o SubSeq(a, (IF index + count > Len(a) THEN Len(a) ELSE index + count) + 1,
                  Len(a))

\* the place of a child node among the child nodes
PlaceOf(dom, node) == CHOOSE k \in 1 .. Len(dom) : dom[k] = node

\* targetNode.insertBefore throws for a refNode that is not a child node
insertBeforeThrows(dom, nodes, refNode) ==
    /\ nodes # <<>>
    /\ refNode # NoNodeRef
    /\ \A k \in 1 .. Len(dom) : dom[k] # refNode

\* targetNode.insertBefore(node, refNode) for every node: before refNode, at
\* the end when refNode is undefined
insertBefore(dom, nodes, refNode) ==
    IF refNode = NoNodeRef THEN dom \o nodes
    ELSE IF insertBeforeThrows(dom, nodes, refNode) \/ nodes = <<>> THEN dom
    ELSE Splice(dom, PlaceOf(dom, refNode) - 1, 0, nodes)

\* the loop of removeCB(node) and targetNode.removeChild(node) from the i-th
\* node on: removeChild throws for what is not a child node
RECURSIVE removeLoop(_, _, _, _, _)
removeLoop(dom, nodes, i, hasCB, removed) ==
    IF i > Len(nodes) THEN [dom |-> dom, removed |-> removed, threw |-> FALSE]
    ELSE LET called == IF hasCB THEN Append(removed, nodes[i]) ELSE removed
         IN  IF \E k \in 1 .. Len(dom) : dom[k] = nodes[i]
             THEN removeLoop(Splice(dom, PlaceOf(dom, nodes[i]) - 1, 1, <<>>),
                             nodes, i + 1, hasCB, called)
             ELSE [dom |-> dom, removed |-> called, threw |-> TRUE]

\* the nodes not in use, lowest first
RECURSIVE FreshNodes(_, _)
FreshNodes(used, n) ==
    IF n = 0 THEN <<>>
    ELSE LET node == CHOOSE x \in NodeIds \ used : \A y \in NodeIds \ used : x <= y
         IN  <<node>> \o FreshNodes(used \cup {node}, n - 1)

InUse(v) == {v.dom[k] : k \in 1 .. Len(v.dom)}
                \cup {v.childNodes[k] : k \in 1 .. Len(v.childNodes)}

\* the state after appendChilds(nodes)
appended(v, nodes) ==
    [v EXCEPT !.childNodes = IF Len(nodes) > 1 THEN @ \o nodes
                             ELSE Append(@, IF nodes = <<>> THEN NoNodeRef ELSE nodes[1]),
              !.dom = @ \o nodes,
              !.op = "appendChilds", !.given = nodes,
              !.inserted = IF v.insertCB THEN nodes ELSE <<>>,
              !.removed = <<>>, !.threw = FALSE,
              !.gaveNone = @ \/ nodes = <<>>]

\* the state after insertChilds(index, nodes)
inserted(v, index, nodes) ==
    IF index = Len(v.childNodes) THEN [appended(v, nodes) EXCEPT !.op = "insertChilds"]
    ELSE [v EXCEPT !.childNodes = Splice(@, index, 0, nodes),
                   !.dom = insertBefore(@, nodes, v.childNodes[index + 1]),
                   !.op = "insertChilds", !.given = nodes,
                   !.inserted =
                        IF v.insertCB
                           /\ ~insertBeforeThrows(v.dom, nodes, v.childNodes[index + 1])
                        THEN nodes ELSE <<>>,
                   !.removed = <<>>,
                   !.threw = insertBeforeThrows(v.dom, nodes, v.childNodes[index + 1]),
                   !.gaveNone = @ \/ nodes = <<>>]

\* the state after the removal r of the nodes, childNodes the proxy array left
removedAs(v, op, nodes, childNodes, r) ==
    [v EXCEPT !.childNodes = childNodes, !.dom = r.dom, !.op = op,
              !.given = nodes, !.inserted = <<>>, !.removed = r.removed,
              !.threw = r.threw]

\* the room the proxy array has for n more nodes, one entry for no node
HasRoom(v, n) ==
    /\ Len(v.childNodes) + (IF n = 0 THEN 1 ELSE n) <= MaxChildren
    /\ Cardinality(NodeIds \ InUse(v)) >= n

\* Operation: appendChilds(nodes) with n new nodes
appendChilds(n) ==
    /\ virtual.on
    /\ HasRoom(virtual, n)
    /\ virtual' = appended(virtual, FreshNodes(InUse(virtual), n))
    /\ UNCHANGED <<heap, getterFnCache, compiled, ev, cache, parses, literal, binding,
                   weakMap, lexer, router>>

\* Operation: insertChilds(index, nodes) with n new nodes
insertChilds(index, n) ==
    /\ virtual.on
    /\ index <= Len(virtual.childNodes)
    /\ HasRoom(virtual, n)
    /\ virtual' = inserted(virtual, index, FreshNodes(InUse(virtual), n))
    /\ UNCHANGED <<heap, getterFnCache, compiled, ev, cache, parses, literal, binding,
                   weakMap, lexer, router>>

\* Operation: removeChilds(index, count, false)
removeChilds(index, count) ==
    /\ virtual.on
    /\ index <= Len(virtual.childNodes)
    /\ virtual' =
         IF count = 0
         THEN [virtual EXCEPT !.op = "removeChilds", !.given = <<>>,
                              !.inserted = <<>>, !.removed = <<>>, !.threw = FALSE]
         ELSE removedAs(virtual, "removeChilds",
                        Slice(virtual.childNodes, index, count),
                        Splice(virtual.childNodes, index, count, <<>>),
                        removeLoop(virtual.dom, Slice(virtual.childNodes, index, count),
                                   1, virtual.removeCB, <<>>))
    /\ UNCHANGED <<heap, getterFnCache, compiled, ev, cache, parses, literal, binding,
                   weakMap, lexer, router>>

\* the proxy array after clear(): it is reset when no removeChild threw
cleared(v, r) == removedAs(v, "clear", v.childNodes,
                           IF r.threw THEN v.childNodes ELSE <<>>, r)

\* Operation: clear()
clear ==
    /\ virtual.on
    /\ virtual' = cleared(virtual, removeLoop(virtual.dom, virtual.childNodes, 1,
                                              virtual.removeCB, <<>>))
    /\ UNCHANGED <<heap, getterFnCache, compiled, ev, cache, parses, literal, binding,
                   weakMap, lexer, router>>

----------------------------------------------------------------------------
(* The lexer over characters: Lexer.lex, readNumber and readIdent.  A text   *)
(* is the sequence of its characters.  The texts hold no quote, so that       *)
(* readString is not taken, no brace or bracket, so that no identifier is     *)
(* given a json flag, and no character that begins an operator of two or      *)
(* three characters.  The column and the text are left out of the messages    *)
(* of the lexer.                                                              *)

\* the most characters of a text
MaxChars == 4

Digits == {"0", "1", "2", "3", "4", "5", "6", "7", "8", "9"}

DigitOf == ("0" :> 0) @@ ("1" :> 1) @@ ("2" :> 2) @@ ("3" :> 3) @@ ("4" :> 4)
            @@ ("5" :> 5) @@ ("6" :> 6) @@ ("7" :> 7) @@ ("8" :> 8) @@ ("9" :> 9)

Letters == {"a", "b", "e", "E", "x", "_", "$", "@"}

\* what peek() returns past the end of the text: false
PastEnd == "false"

\* text.charAt(index)
charAt(text, index) == text[index + 1]

\* Lexer.peek(i)
peekCh(text, index, num) ==
    IF index + num < Len(text) THEN text[index + num + 1] ELSE PastEnd

\* Lexer.isNumber(ch): `"0" <= ch && ch <= "9"`, which compares false, what
\* peek() gives past the end, as the number 0 and so holds for it
isNumber(ch) == ch \in Digits \cup {PastEnd}

\* Lexer.isWhitespace(ch)
isWhitespace(ch) == ch = " "

\* Lexer.isIdent(ch)
isIdent(ch) == ch \in Letters

\* Lexer.isExpOperator(ch)
isExpOperator(ch) == ch \in {"-", "+"} \/ isNumber(ch)

\* lowercase(ch)
lowercase(ch) == IF ch = "E" THEN "e" ELSE ch

\* the string of the characters from the i-th on
RECURSIVE Concat(_, _)
Concat(chars, i) == IF i > Len(chars) THEN "" ELSE chars[i] \o Concat(chars, i + 1)

\* the number the decimal digits write
RECURSIVE IntOf(_, _)
IntOf(digits, n) ==
    IF n = 0 THEN 0 ELSE 10 * IntOf(digits, n - 1) + DigitOf[digits[n]]

\* A number is m * 10^e with m not a multiple of 10 (0 is <<"dec", 0, 0>>),
\* NaN or Infinity.
RECURSIVE Dec(_, _)
Dec(m, e) ==
    IF m = 0 THEN <<"dec", 0, 0>>
    ELSE IF m % 10 = 0 THEN Dec(m \div 10, e + 1)
    ELSE <<"dec", m, e>>

NotANumber == <<"nan", 0, 0>>

Infinite == <<"inf", 0, 0>>

AllDigits(chars) == \A k \in 1 .. Len(chars) : chars[k] \in Digits

\* the place of the first e in n, 0 when there is none
ExpAt(n) ==
    IF \E k \in 1 .. Len(n) : n[k] = "e"
    THEN CHOOSE k \in 1 .. Len(n) : n[k] = "e" /\ \A j \in 1 .. k - 1 : n[j] # "e"
    ELSE 0

\* the place of the first dot in n, 0 when there is none
DotAt(n) ==
    IF \E k \in 1 .. Len(n) : n[k] = "."
    THEN CHOOSE k \in 1 .. Len(n) : n[k] = "." /\ \A j \in 1 .. k - 1 : n[j] # "."
    ELSE 0

\* the digits of an exponent part after its sign
ExpDigits(x) ==
    IF x # <<>> /\ x[1] \in {"+", "-"} THEN SubSeq(x, 2, Len(x)) ELSE x

\* the number of a mantissa of whole digits w and fraction digits f and of
\* an exponent x, as a double holds it: Infinity beyond 10^308
DecimalOf(w, f, x) ==
    LET m == IntOf(w \o f, Len(w) + Len(f))
        d == ExpDigits(x)
        e == IF x # <<>> /\ x[1] = "-" THEN 0 - IntOf(d, Len(d)) ELSE IntOf(d, Len(d))
    IN  IF m # 0 /\ e - Len(f) > 308 THEN Infinite
        ELSE IF m # 0 /\ e + Len(w) < 0 - 324 THEN Dec(0, 0)
        ELSE Dec(m, e - Len(f))

\* the number of a mantissa c and an exponent part x (after the e), hasExp
\* telling whether there is an e
MantissaOf(c, hasExp, x) ==
    LET dot == DotAt(c)
        w == IF dot = 0 THEN c ELSE SubSeq(c, 1, dot - 1)
        f == IF dot = 0 THEN <<>> ELSE SubSeq(c, dot + 1, Len(c))
    IN  IF /\ AllDigits(w) /\ AllDigits(f) /\ Len(w) + Len(f) > 0
           /\ hasExp => (ExpDigits(x) # <<>> /\ AllDigits(ExpDigits(x)))
        THEN DecimalOf(w, f, x)
        ELSE NotANumber

\* `1 * n` for a string n: the number n writes, NaN when it writes none
StringToNumber(n) ==
    IF ExpAt(n) = 0 THEN MantissaOf(n, FALSE, <<>>)
    ELSE MantissaOf(SubSeq(n, 1, ExpAt(n) - 1), TRUE, SubSeq(n, ExpAt(n) + 1, Len(n)))

\* a token: {index, text, json}; kind tells which branch made it, stop is
\* the index of the lexer after it and path the path handed to getterFn
Token(index, stop, kind, text, json, path) ==
    [kind |-> kind, text |-> text, path |-> path, index |-> index, stop |-> stop,
     json |-> json]

\* Lexer.throwError(error): a syntax error with the message of the lexer
lexerError(error) == parseMinErr("lexerr", "Lexer Error: " \o error)

\* the loop of readNumber from index on, n the characters taken
RECURSIVE readNumberLoop(_, _, _)
readNumberLoop(text, index, n) ==
    IF index >= Len(text) THEN [n |-> n, index |-> index, ok |-> TRUE]
    ELSE LET ch == lowercase(charAt(text, index))
             peeked == peekCh(text, index, 1)
         IN  IF ch = "." \/ isNumber(ch)
             THEN readNumberLoop(text, index + 1, Append(n, ch))
             ELSE IF ch = "e" /\ isExpOperator(peeked)
             THEN readNumberLoop(text, index + 1, Append(n, ch))
             ELSE IF /\ isExpOperator(ch) /\ peeked # PastEnd /\ isNumber(peeked)
                     /\ n # <<>> /\ n[Len(n)] = "e"
             THEN readNumberLoop(text, index + 1, Append(n, ch))
             ELSE IF /\ isExpOperator(ch) /\ (peeked = PastEnd \/ ~isNumber(peeked))
                     /\ n # <<>> /\ n[Len(n)] = "e"
             THEN [n |-> n, index |-> index, ok |-> FALSE]
             ELSE [n |-> n, index |-> index, ok |-> TRUE]

\* the token readNumber pushes after its loop r
numberToken(start, r) ==
    Token(start, r.index, "number", StringToNumber(r.n), "true", <<>>)

\* the identifier characters from index on
RECURSIVE readIdentLoop(_, _)
readIdentLoop(text, index) ==
    IF index < Len(text)
       /\ (charAt(text, index) = "." \/ isIdent(charAt(text, index))
           \/ charAt(text, index) \in Digits)
    THEN readIdentLoop(text, index + 1)
    ELSE index

\* the index of the last dot of text[start .. stop), -1 when there is none
lastDotOf(text, start, stop) ==
    IF \E k \in start .. stop - 1 : charAt(text, k) = "."
    THEN CHOOSE k \in start .. stop - 1 :
            charAt(text, k) = "." /\ \A j \in k + 1 .. stop - 1 : charAt(text, j) # "."
    ELSE 0 - 1

\* the index of the `(` that follows peekIndex through whitespace, -1 when
\* something else follows
RECURSIVE parenAfter(_, _)
parenAfter(text, peekIndex) ==
    IF peekIndex >= Len(text) THEN 0 - 1
    ELSE IF charAt(text, peekIndex) = "(" THEN peekIndex
    ELSE IF isWhitespace(charAt(text, peekIndex)) THEN parenAfter(text, peekIndex + 1)
    ELSE 0 - 1

\* text.substring(from, to) as a string
Substring(text, from, to) == Concat(SubSeq(text, from + 1, to), 1)

\* the path keys of the identifier text[from .. to): path.split(".")
RECURSIVE SplitPath(_, _, _)
SplitPath(text, from, to) ==
    IF \E k \in from .. to - 1 : charAt(text, k) = "."
    THEN LET d == CHOOSE k \in from .. to - 1 :
                    charAt(text, k) = "." /\ \A j \in from .. k - 1 : charAt(text, j) # "."
         IN  <<Substring(text, from, d)>> \o SplitPath(text, d + 1, to)
    ELSE <<Substring(text, from, to)>>

\* the keywords of OPERATORS: null, true, false, undefined
KeywordNames == {"null", "true", "false", "undefined"}

\* the token of the identifier text[start .. to), the lexer going on at stop
identToken(text, start, to, stop) ==
    IF Substring(text, start, to) \in KeywordNames
    THEN Token(start, stop, "keyword", Substring(text, start, to), "fn", <<>>)
    ELSE Token(start, stop, "ident", Substring(text, start, to), "unset",
               SplitPath(text, start, to))

\* the tokens readIdent pushes for the run text[start .. end), lastDot the
\* index of its last dot and paren the index of the `(` after it
identTokens(text, start, end, lastDot, paren) ==
    IF lastDot < 0 \/ paren < 0 THEN <<identToken(text, start, end, end)>>
    ELSE IF lastDot + 1 = end THEN <<identToken(text, start, lastDot, paren)>>
    ELSE <<identToken(text, start, lastDot, lastDot),
           Token(lastDot, lastDot + 1, "dot", ".", "false", <<>>),
           Token(lastDot + 1, paren, "method", Substring(text, lastDot + 1, end),
                 "false", <<>>)>>

\* Lexer.readIdent at start
readIdent(text, start) ==
    identTokens(text, start, readIdentLoop(text, start),
                lastDotOf(text, start, readIdentLoop(text, start)),
                parenAfter(text, readIdentLoop(text, start)))

Punctuation == {"(", ")", "{", "}", "[", "]", ".", ",", ";", ":", "?"}

\* the operators of OPERATORS of one character
OperatorChars == {"+", "-", "*", "/", "%", "^"}

\* the token of a punctuation character after lastCh
punctToken(index, ch, lastCh) ==
    Token(index, index + 1, "punct", ch,
          IF (lastCh \in {":", "[", ","} /\ ch \in {"{", "["}) \/ ch \in {"}", "]", ":", ","}
          THEN "true" ELSE "false", <<>>)

\* the token of an operator of one character after lastCh
operatorToken(index, ch, lastCh) ==
    Token(index, index + 1, "op", ch,
          IF lastCh \in {"[", ",", ":"} /\ ch \in {" ", "+", "-"} THEN "true" ELSE "false",
          <<>>)

Lexed(tokens) == [err |-> NoErr, ok |-> TRUE, tokens |-> tokens]

\* the loop of Lexer.lex from index on
RECURSIVE lexLoop(_, _, _, _)
\* the loop of Lexer.lex after readNumber's loop r
lexNumber(text, index, tokens, r) ==
    IF r.ok THEN lexLoop(text, r.index, Append(tokens, numberToken(index, r)),
                         charAt(text, index))
    ELSE [err |-> lexerError("Invalid exponent"), ok |-> FALSE, tokens |-> tokens]

\* the loop of Lexer.lex after readIdent's tokens
lexIdent(text, index, tokens, read) ==
    lexLoop(text, read[Len(read)].stop, tokens \o read, charAt(text, index))

lexLoop(text, index, tokens, lastCh) ==
    IF index >= Len(text) THEN Lexed(tokens)
    ELSE LET ch == charAt(text, index)
         IN  IF isNumber(ch) \/ (ch = "." /\ isNumber(peekCh(text, index, 1)))
             THEN lexNumber(text, index, tokens, readNumberLoop(text, index, <<>>))
             ELSE IF isIdent(ch)
             THEN lexIdent(text, index, tokens, readIdent(text, index))
             ELSE IF ch \in Punctuation
             THEN lexLoop(text, index + 1, Append(tokens, punctToken(index, ch, lastCh)), ch)
             ELSE IF isWhitespace(ch) THEN lexLoop(text, index + 1, tokens, lastCh)
             ELSE IF ch \in OperatorChars
             THEN lexLoop(text, index + 1,
                          Append(tokens, operatorToken(index, ch, lastCh)), ch)
             ELSE [err |-> lexerError("Unexpected next character "), ok |-> FALSE,
                   tokens |-> tokens]

\* Lexer.lex(text)
lexText(text) == lexLoop(text, 0, <<>>, ":")

\* the paths of the identifier tokens: the calls of getterFn
TokenPaths(tokens) ==
    LET idx == SelectSeq([k \in 1 .. Len(tokens) |-> k],
                         LAMBDA k : tokens[k].kind = "ident")
    IN  [k \in 1 .. Len(idx) |-> tokens[idx[k]].path]

\* no call of the lexer
NoLexer == [err |-> NoErr, text |-> <<>>, ok |-> FALSE, on |-> FALSE, tokens |-> <<>>]

\* the lexer before it is run on the text
ToLex(text) == [NoLexer EXCEPT !.text = text]

\* the state after Lexer.lex gave r
LexedAs(r) ==
    /\ lexer' = [err |-> r.err, text |-> lexer.text, ok |-> r.ok, on |-> TRUE,
                 tokens |-> r.tokens]
    /\ getterFnCache' = lexIdents(getterFnCache, TokenPaths(r.tokens), 1).cache

\* Operation: new Lexer(options).lex(text)
LexText ==
    /\ ~lexer.on
    /\ lexer.text # <<>>
    /\ LexedAs(lexText(lexer.text))
    /\ UNCHANGED <<heap, compiled, ev, cache, parses, literal, binding, weakMap,
                   virtual, router>>

----------------------------------------------------------------------------
(* Router: the states, go and activateState *)

rootStateName == "$"

RouterStateNames == {rootStateName, "a", "b"}

\* a parameter object is a set of <<name, value>> pairs, one pair a name
ParamObjects == {{}, {<<"p", 1>>}, {<<"p", 2>>}}

\* an argument that was left out, and one that was given
LeftOut == [value |-> {}, given |-> FALSE]

Given(o) == [value |-> o, given |-> TRUE]

\* the state configurations the application registers: `a` has the default
\* parameters {p: 1} and both callbacks, `b` has onEnter only
StateConfig(name) ==
    [name |-> name,
     params |-> IF name = "a" THEN Given({<<"p", 1>>}) ELSE LeftOut,
     onLeave |-> name = "a",
     onEnter |-> name \in {"a", "b"}]

\* current() of a router that entered no state
NoState == [name |-> "", params |-> {}, onLeave |-> FALSE, onEnter |-> FALSE,
            is |-> FALSE]

\* extend(src, dst): the properties of src copied over those of dst
extend(src, dst) ==
    src \cup {pr \in dst : \A other \in src : other[1] # pr[1]}

\* isEqual(a, b) on parameter objects
isEqual(a, b) == a = b

\* the root state and the named one (names have no separator here)
getStateHierarchy(name) ==
    IF name = rootStateName THEN <<StateConfig(name)>>
    ELSE <<StateConfig(rootStateName), StateConfig(name)>>

\* hierarchy.forEach(... extend(state.params, stateParams) ...) from the
\* k-th state on
RECURSIVE mergeParams(_, _, _)
mergeParams(hierarchy, k, stateParams) ==
    IF k > Len(hierarchy) THEN stateParams
    ELSE mergeParams(hierarchy, k + 1,
             IF hierarchy[k].params.given
             THEN extend(hierarchy[k].params.value, stateParams)
             ELSE stateParams)

\* the options of a state change: none, or force and location
NoOptions == [is |-> FALSE, force |-> FALSE, location |-> "none"]

Options(force, location) == [is |-> TRUE, force |-> force, location |-> location]

\* the state activateState constructs for `to`
constructedState(to, params) ==
    [name |-> to,
     params |-> IF params.given
                THEN extend(params.value, mergeParams(getStateHierarchy(to), 1, {}))
                ELSE mergeParams(getStateHierarchy(to), 1, {}),
     onLeave |-> StateConfig(to).onLeave,
     onEnter |-> StateConfig(to).onEnter,
     is |-> TRUE]

\* what the body of the `if` of activateState does, in its order
activated(current, entered, options) ==
    [current |-> entered,
     log |-> (IF options.is /\ options.location # "none"
              THEN <<<<IF options.location = "replace" THEN "replaceState"
                       ELSE "pushState", entered.name>>>>
              ELSE <<>>)
             \o (IF current.is /\ current.onLeave
                 THEN <<<<"onLeave", current.name>>>> ELSE <<>>)
             \o <<<<"current", entered.name>>>>
             \o (IF entered.onEnter THEN <<<<"onEnter", entered.name>>>> ELSE <<>>)]

\* an activateState that does not compare with the current state
activateStateAlways(current, to, params, options) ==
    activated(current, constructedState(to, params), options)

\* Router.activateState
activateState(current, to, params, options) ==
    IF \/ options.is /\ options.force
       \/ ~current.is
       \/ current.name # to
       \/ ~isEqual(current.params, constructedState(to, params).params)
    THEN activated(current, constructedState(to, params), options)
    ELSE [current |-> current, log |-> <<>>]

\* no router
NoRouter ==
    [op |-> "", before |-> NoState, options |-> NoOptions, on |-> FALSE, threw |-> FALSE,
     to |-> "", params |-> LeftOut, current |-> NoState, log |-> <<>>,
     states |-> {}]

\* new Router(domManager): reset(false) registers the root state
NewRouter == [NoRouter EXCEPT !.on = TRUE, !.states = {rootStateName}]

\* the router after go(to, params, options) (paths are absolute names)
went(r, op, to, params, options) ==
    IF to \notin r.states
    THEN [r EXCEPT !.op = op, !.to = to, !.params = params, !.options = options,
                   !.before = r.current, !.log = <<>>, !.threw = TRUE]
    ELSE [r EXCEPT !.op = op, !.to = to, !.params = params, !.options = options,
                   !.before = r.current, !.threw = FALSE,
                   !.current = activateState(r.current, to, params, options).current,
                   !.log = activateState(r.current, to, params, options).log]

RouterFrame ==
    UNCHANGED <<heap, getterFnCache, compiled, ev, cache, parses, literal, binding,
                weakMap, virtual, lexer>>

\* Operation: router.state(config)
state(name) ==
    /\ router.on
    /\ router' = [router EXCEPT !.states = @ \cup {name}, !.op = "state",
                                !.to = name, !.params = LeftOut,
                                !.options = NoOptions, !.before = router.current,
                                !.log = <<>>, !.threw = FALSE]
    /\ RouterFrame

\* Operation: router.go(to, params, options)
go(to, params, options) ==
    /\ router.on
    /\ router' = went(router, "go", to, params, options)
    /\ RouterFrame

\* Operation: router.reload()
reload ==
    /\ router.on
    /\ router' = IF router.current.is
                 THEN went(router, "reload", router.current.name,
                           Given(router.current.params), Options(TRUE, "replace"))
                 ELSE went(router, "reload", rootStateName, Given({}),
                           Options(TRUE, "replace"))
    /\ RouterFrame

----------------------------------------------------------------------------
(* Reads: the path getters on scopes given by the caller *)

ReadHook == [present |-> TRUE, read |-> TRUE, write |-> FALSE, store |-> FALSE,
     readIndex |-> FALSE, writeIndex |-> FALSE, indexRet |-> <<"undef", 0>>]

ReadLocals ==
    {UndefLocals}
    \cup {MkLocals(own, hk) : own \in {{}, {<<"a", Num(7)>>}, {<<"f", Num(7)>>}},
                              hk \in {NoHooks, ReadHook}}

ReadSources ==
    {Path(<<"a">>), Path(<<"a", "b">>), Path(<<"a", "b", "c">>),
     Path(PathKeys), Field(<<"a">>, <<"b">>)}

ReadHeaps ==
    {ChainHeap(1, Undef), ChainHeap(1, Null), ChainHeap(1, Num(5)),
     ChainHeap(2, Undef), ChainHeap(2, Num(5)), ChainHeap(3, Num(5)),
     ChainHeap(5, Null), ChainHeap(6, Num(5))}

InitRead ==
    /\ heap \in ReadHeaps
    /\ getterFnCache = {}
    /\ compiled = NoCompile
    /\ ev = NoEval
    /\ cache = <<>>
    /\ parses = <<>>
    /\ literal = NoLiteral
    /\ binding = NoBinding
    /\ weakMap = NoWeakMap
    /\ virtual = NoVirtual
    /\ lexer = NoLexer
    /\ router = NoRouter

NextRead ==
    \/ \E src \in ReadSources : compileExpression(src, FALSE)
    \/ \E scope \in {Ref(1), Undef, Null}, locals \in ReadLocals : Evaluate(scope, locals)

SpecRead == InitRead /\ [][NextRead]_vars

----------------------------------------------------------------------------
(* Claims about reads *)

\* the read the specification describes: the first segment is looked up in
\* locals when locals has it as an own property and in the scope otherwise,
\* every later segment in the value before it, and a missing value on the way
\* gives undefined
RECURSIVE RefWalk(_, _, _, _, _)
RefWalk(h, locals, p, i, v) ==
    IF i > Len(p) THEN v
    ELSE IF IsNullish(v) THEN Undef
    ELSE RefWalk(h, locals, p, i + 1, PropOf(h, locals, v, p[i]))

RefRead(h, p, scope, locals) ==
    LET base == IF LocalsHasOwn(locals, p[1]) THEN LocalsVal ELSE scope
    IN  IF IsNullish(base) THEN Undef
        ELSE RefWalk(h, locals, p, 2, PropOf(h, locals, base, p[1]))

HookedRead(locals) == getRuntimeHooks(locals).present /\ getRuntimeHooks(locals).read

\* C5: when locals carry a readFieldHook, every field read of the evaluation
\* goes through the hook and none reads the property directly, for paths of
\* every length and for a `.field` applied to a parenthesised sub-expression.
C5_ReadsGoThroughHook ==
    (ev.on /\ HookedRead(ev.locals)) =>
        \A i \in 1 .. Len(ev.tr) : ev.tr[i][1] # "read"

\* C7: in a path of six or more segments only the first segment of the whole
\* path is resolved from locals; every later access reads from the value
\* before it, also when locals has an own property named like the segment.
C7_OnlyFirstSegmentFromLocals ==
    (ev.on /\ compiled.src.op = "path" /\ Len(compiled.src.p) >= 6) =>
        \A i \in 2 .. Len(ev.tr) : ev.tr[i][2] # LocalsVal

\* C8: a path read never throws, returns undefined when some value on the
\* way is missing (undefined or null) and the value at the end of the path
\* otherwise, for every path length and locals, already for a scope that is
\* an object.
C8_ReadOfMissingIsUndefined ==
    (ev.on /\ compiled.src.op = "path" /\ IsObj(ev.scope)) =>
        /\ ev.kind = "value"
        /\ ev.v = RefRead(ev.pre, compiled.src.p, ev.scope, ev.locals)

----------------------------------------------------------------------------
(* Writes: assignments to paths of one to three segments, against a scope    *)
(* that starts empty                                                         *)

WriteHook(st) == [present |-> TRUE, read |-> FALSE, write |-> TRUE, store |-> st,
     readIndex |-> FALSE, writeIndex |-> FALSE, indexRet |-> <<"undef", 0>>]
ReadWriteHook(st) == [present |-> TRUE, read |-> TRUE, write |-> TRUE, store |-> st,
     readIndex |-> FALSE, writeIndex |-> FALSE, indexRet |-> <<"undef", 0>>]

WriteLocals ==
    {UndefLocals, MkLocals({<<"a", Num(7)>>}, NoHooks)}
    \cup {MkLocals({}, hk) : hk \in {NoHooks, ReadHook, WriteHook(FALSE),
                                     WriteHook(TRUE), ReadWriteHook(TRUE)}}

WriteSources ==
    {Assign(p, v) : p \in {<<"a">>, <<"a", "b">>, <<"a", "b", "c">>},
                    v \in {Num(5), Num(0), Null}}

InitWrite ==
    /\ heap = [o \in ObjIds |-> EmptyObj]
    /\ getterFnCache = {}
    /\ compiled = NoCompile
    /\ ev = NoEval
    /\ cache = <<>>
    /\ parses = <<>>
    /\ literal = NoLiteral
    /\ binding = NoBinding
    /\ weakMap = NoWeakMap
    /\ virtual = NoVirtual
    /\ lexer = NoLexer
    /\ router = NoRouter

NextWrite ==
    \/ \E src \in WriteSources : compileExpression(src, FALSE)
    \/ \E scope \in {Ref(1), Undef}, locals \in WriteLocals : Evaluate(scope, locals)

SpecWrite == InitWrite /\ [][NextWrite]_vars

----------------------------------------------------------------------------
(* Claims about writes *)

HookedWrite(locals) == getRuntimeHooks(locals).present /\ getRuntimeHooks(locals).write

IsHookWrite(e) == e[1] = "hookWrite"

\* the calls of writeFieldHook made by the last evaluation, in order
HookWrites == SelectSeq(ev.tr, IsHookWrite)

NoDirectWrite == \A i \in 1 .. Len(ev.tr) : ev.tr[i][1] # "write"

\* the heap after the stores of the given writeFieldHook calls, and nothing else
RECURSIVE ApplyHookWrites(_, _, _, _)
ApplyHookWrites(h, hooks, calls, i) ==
    IF i > Len(calls) THEN h
    ELSE ApplyHookWrites(writeFieldHook(h, hooks, calls[i][2], calls[i][3], calls[i][4]),
                         hooks, calls, i + 1)

\* `a.b = 5` evaluated against a scope object with a writeFieldHook in locals
C6_Case ==
    /\ ev.on
    /\ compiled.src = Assign(<<"a", "b">>, Num(5))
    /\ HookedWrite(ev.locals)
    /\ IsObj(ev.scope)

\* C6 as stated: `a.b = 5` with a writeFieldHook invokes the hook exactly
\* once, with the object resolved for `a`, the key b and the value 5, and
\* writes no property directly.
C6_HookInvokedExactlyOnce ==
    C6_Case =>
        /\ Len(HookWrites) = 1
        /\ HookWrites[1] = <<"hookWrite", ObjGet(ev.pre[1], "a"), "b", Num(5)>>
        /\ NoDirectWrite

\* C6 amended: the hook is invoked once, with the value of `a`, b and 5, when
\* the scope holds a truthy `a`; when `a` is missing or falsy it is invoked
\* twice, first with the scope, a and a new empty object, then with that
\* object, b and 5.  In both cases the assignment yields 5, no property is
\* written directly, and the heap changes by the stores of the hook only.
C6_HookWritesOnly ==
    C6_Case =>
        LET a0 == ObjGet(ev.pre[1], "a")
        IN  /\ ev.kind = "value" /\ ev.v = Num(5)
            /\ NoDirectWrite
            /\ IF Truthy(a0)
               THEN HookWrites = << <<"hookWrite", a0, "b", Num(5)>> >>
               ELSE \E new \in ObjIds \ Reach(ev.pre) :
                        HookWrites = << <<"hookWrite", ev.scope, "a", Ref(new)>>,
                                        <<"hookWrite", Ref(new), "b", Num(5)>> >>
            /\ heap = Collect(ApplyHookWrites(ev.pre, getRuntimeHooks(ev.locals),
                                              HookWrites, 1))

\* the hook has been invoked twice by one `a.b = 5`
C6_Witness == C6_Case /\ Len(HookWrites) = 2 /\ ev.kind = "value"

\* the value after the first j segments of p, walking from the scope object
RECURSIVE WalkTo(_, _, _)
WalkTo(h, p, j) ==
    IF j = 0 THEN Ref(1)
    ELSE LET before == WalkTo(h, p, j - 1)
         IN  IF IsObj(before) THEN ObjGet(h[before[2]], p[j]) ELSE Undef

\* an assignment evaluated without runtime hooks against the scope object
C9_Case ==
    /\ ev.on
    /\ compiled.src.op = "assign"
    /\ ~getRuntimeHooks(ev.locals).present
    /\ ev.scope = Ref(1)

\* C9 as stated: the assignment walks all but the last segment, creates an
\* empty object for each intermediate segment that is missing (undefined or
\* null), reuses and leaves untouched the ones that are present, writes the
\* value at the last segment and yields it.
C9_AssignCreatesMissingOnly ==
    C9_Case =>
        LET p == compiled.src.p
        IN  /\ ev.kind = "value" /\ ev.v = compiled.src.rhs
            /\ WalkTo(heap, p, Len(p)) = compiled.src.rhs
            /\ \A j \in 1 .. Len(p) - 1 :
                  IF IsNullish(WalkTo(ev.pre, p, j))
                  THEN IsObj(WalkTo(heap, p, j))
                  ELSE WalkTo(heap, p, j) = WalkTo(ev.pre, p, j)

\* some intermediate segment holds a truthy primitive
PrimOnWay(h, p) == \E j \in 1 .. Len(p) - 1 :
    LET w == WalkTo(h, p, j) IN Truthy(w) /\ ~IsObj(w)

\* the fields of object o other than key
Others(h, o, key) == {f \in h[o] : f[1] # key}

\* C9 amended: without runtime hooks and against a scope object, the
\* assignment creates an empty object for every intermediate segment whose
\* value is falsy (undefined, null, 0), reuses the intermediate segments that
\* hold objects and leaves their other fields untouched, writes the value at
\* the last segment and yields it; when an intermediate segment holds a
\* truthy primitive the assignment throws a TypeError and changes nothing.
C9_AssignCreatesFalsyReusesObjects ==
    C9_Case =>
        LET p == compiled.src.p
        IN  IF PrimOnWay(ev.pre, p)
            THEN ev.kind = "throw" /\ ev.err.name = "TypeError" /\ heap = ev.pre
            ELSE /\ ev.kind = "value" /\ ev.v = compiled.src.rhs
                 /\ WalkTo(heap, p, Len(p)) = compiled.src.rhs
                 /\ Others(heap, 1, p[1]) = Others(ev.pre, 1, p[1])
                 /\ \A j \in 1 .. Len(p) - 1 :
                       LET old == WalkTo(ev.pre, p, j)
                           new == WalkTo(heap, p, j)
                       IN  IF IsObj(old)
                           THEN /\ new = old
                                /\ Others(heap, old[2], p[j + 1])
                                     = Others(ev.pre, old[2], p[j + 1])
                           ELSE /\ IsObj(new)
                                /\ new[2] \notin Reach(ev.pre)
                                /\ Others(heap, new[2], p[j + 1]) = {}

\* an assignment to a three-segment path has created both intermediate
\* objects and written the value
C9_Witness ==
    /\ C9_Case
    /\ Len(compiled.src.p) = 3
    /\ ev.kind = "value"
    /\ ~IsObj(WalkTo(ev.pre, compiled.src.p, 1))
    /\ IsObj(WalkTo(heap, compiled.src.p, 2))
    /\ WalkTo(heap, compiled.src.p, 3) = Num(5)

----------------------------------------------------------------------------
(* Paths with a segment named constructor *)

Ctor == "constructor"

CtorSources ==
    {Path(<<Ctor>>), Path(<<"a", Ctor>>), Path(<<Ctor, "a">>),
     Path(<<"a", "b", Ctor>>), Path(<<"a", Ctor, "b">>),
     Path(<<"a", "b", "c", "d", Ctor>>),
     Path(<<"a", "b", "c", "d", "e", Ctor>>),
     Path(<<Ctor, "b", "c", "d", "e", "f">>),
     Path(<<"a", "b", "c", "d", "e", "f", Ctor>>),
     Field(<<"a">>, <<Ctor>>), Assign(<<"a", Ctor>>, Num(5)),
     Path(<<"a">>), Path(PathKeys)}

InitCtor ==
    /\ heap = ChainHeap(6, Num(5))
    /\ getterFnCache = {}
    /\ compiled = NoCompile
    /\ ev = NoEval
    /\ cache = <<>>
    /\ parses = <<>>
    /\ literal = NoLiteral
    /\ binding = NoBinding
    /\ weakMap = NoWeakMap
    /\ virtual = NoVirtual
    /\ lexer = NoLexer
    /\ router = NoRouter

NextCtor ==
    \/ \E src \in CtorSources : compileExpression(src, FALSE)
    \/ \E locals \in {UndefLocals, MkLocals({}, NoHooks), MkLocals({}, ReadHook)} :
           Evaluate(Ref(1), locals)

SpecCtor == InitCtor /\ [][NextCtor]_vars

\* the source holds a dotted path with a segment named constructor
HasCtorSegment(src) ==
    \E n \in 1 .. Len(Idents(src)) :
        \E i \in 1 .. Len(Idents(src)[n]) : Idents(src)[n][i] = Ctor

\* C1: compiling a source that holds a dotted path with a segment named
\* constructor throws at compile time, whatever the position of the segment
\* and the number of segments: no compiled expression is returned, and none
\* is evaluated.
C1_ConstructorRejectedAtCompile ==
    (compiled.src.op # "none" /\ HasCtorSegment(compiled.src)) =>
        /\ ~compiled.ok
        /\ compiled.err = ensureSafeMemberNameErr
        /\ ~ev.on

----------------------------------------------------------------------------
(* Calls and indexed accesses on a scope that holds safe and unsafe objects *)

SandboxErrs ==
    {parseMinErr("isecfn", IsecfnMsg), parseMinErr("isecwindow", IsecwindowMsg),
     parseMinErr("isecdom", IsecdomMsg)}

\* object 1 the scope, 2 a function returning 5, 3 Function, 4 a window,
\* 5 a DOM element, 6 a function returning ret, 7 a plain object holding
\* them all, 8 a jQuery-wrapped element
GuardObjects(ret) ==
    <<{<<"o", Ref(7)>>, <<"f", Ref(2)>>, <<"c", Ref(3)>>, <<"w", Ref(4)>>,
       <<"g", Ref(6)>>},
      {<<"@call", Num(5)>>},
      {<<"@call", Num(5)>>, <<"constructor", Ref(3)>>},
      {<<"document", Num(1)>>, <<"location", Num(1)>>, <<"alert", Num(1)>>,
       <<"setInterval", Num(1)>>},
      {<<"children", Num(1)>>, <<"nodeName", Num(1)>>},
      ObjPut({}, "@call", ret),
      {<<"f", Ref(2)>>, <<"c", Ref(3)>>, <<"w", Ref(4)>>, <<"e", Ref(5)>>,
       <<"g", Ref(6)>>, <<"j", Ref(8)>>, <<"n", Num(5)>>},
      {<<"children", Num(1)>>, <<"prop", Num(1)>>, <<"attr", Num(1)>>,
       <<"find", Num(1)>>}>>

GuardHeap(ret) == [o \in ObjIds |-> IF o <= 8 THEN GuardObjects(ret)[o] ELSE EmptyObj]

GuardReturns == {Num(5), Ref(3), Ref(4), Ref(5), Ref(8)}

IndexHook(ret, st) ==
    [present |-> TRUE, read |-> FALSE, write |-> FALSE, store |-> st,
     readIndex |-> TRUE, writeIndex |-> TRUE, indexRet |-> ret]

GuardLocals ==
    {UndefLocals} \cup {MkLocals({}, IndexHook(ret, TRUE)) : ret \in {Num(7), Ref(3), Ref(4)}}

GuardSources ==
    {Call(<<k>>) : k \in {"f", "c", "g", "w"}}
    \cup {CallMethod(<<"o">>, m) : m \in {"f", "c", "g"}}
    \cup {CallMethod(<<"w">>, "f")}
    \cup {CallIndex(<<"o">>, i) : i \in {"g", "c", "e", "j", "z", "n"}}
    \cup {Index(<<"o">>, i) : i \in {"f", "c", "w", "e", "j", "n", "z"}}
    \cup {IndexAssign(<<k>>, "n", Num(7)) : k \in {"o", "f", "c", "w"}}
    \cup {Call(<<Ctor>>), CallAssign(<<"f">>, Num(7))}

InitGuard ==
    /\ heap \in {GuardHeap(ret) : ret \in GuardReturns}
    /\ getterFnCache = {}
    /\ compiled = NoCompile
    /\ ev = NoEval
    /\ cache = <<>>
    /\ parses = <<>>
    /\ literal = NoLiteral
    /\ binding = NoBinding
    /\ weakMap = NoWeakMap
    /\ virtual = NoVirtual
    /\ lexer = NoLexer
    /\ router = NoRouter

NextGuard ==
    \/ \E src \in GuardSources : compileExpression(src, FALSE)
    \/ \E locals \in GuardLocals : Evaluate(Ref(1), locals)

SpecGuard == InitGuard /\ [][NextGuard]_vars

\* the objects the sandbox keeps out of expressions: Function, a window,
\* a DOM element
IsFunctionCtor(h, v) == IsObj(v) /\ ObjGet(h[v[2]], "constructor") = v
IsWindow(h, v) ==
    IsObj(v) /\ \A k \in {"document", "location", "alert", "setInterval"} :
                    Truthy(ObjGet(h[v[2]], k))
IsElement(h, v) ==
    /\ IsObj(v)
    /\ Truthy(ObjGet(h[v[2]], "children"))
    /\ \/ Truthy(ObjGet(h[v[2]], "nodeName"))
       \/ \A k \in {"prop", "attr", "find"} : Truthy(ObjGet(h[v[2]], k))
Unsafe(h, v) == IsFunctionCtor(h, v) \/ IsWindow(h, v) \/ IsElement(h, v)

CallOps == {"call", "callm", "callidx"}

\* the function a call source resolves to
CallTarget ==
    LET src == compiled.src
        o == RefRead(ev.pre, src.q, ev.scope, ev.locals)
        hooks == getRuntimeHooks(ev.locals)
    IN  IF src.op = "call" THEN RefRead(ev.pre, src.p, ev.scope, ev.locals)
        ELSE IF ~Truthy(o) THEN Undef
        ELSE IF src.op = "callidx" /\ hooks.present /\ hooks.readIndex
        THEN hooks.indexRet
        ELSE PropOf(ev.pre, ev.locals, o, src.p[1])

Calls == {i \in 1 .. Len(ev.tr) : ev.tr[i][1] = "call"}
SandboxThrow == ev.kind = "throw" /\ ev.err \in SandboxErrs

\* C2: a call whose resolved target is Function, a window or a DOM element
\* throws a sandbox error and invokes nothing; a function that is invoked is
\* never one of those; and a return value that is one of those is not
\* returned, the call throws a sandbox error instead.
C2_CallTargetAndResultGuarded ==
    (ev.on /\ compiled.src.op \in CallOps) =>
        /\ Unsafe(ev.pre, CallTarget) => SandboxThrow /\ Calls = {}
        /\ \A i \in Calls : ~Unsafe(ev.pre, ev.tr[i][2])
        /\ \A i \in Calls : Unsafe(ev.pre, ev.tr[i][4]) => SandboxThrow
        /\ ev.kind = "value" => ~Unsafe(ev.pre, ev.v)

C2_Witness ==
    /\ ev.on /\ compiled.src.op \in CallOps
    /\ SandboxThrow
    /\ \E i \in Calls : IsWindow(ev.pre, ev.tr[i][4])

C2_WitnessTarget ==
    /\ ev.on /\ compiled.src.op \in CallOps
    /\ IsFunctionCtor(ev.pre, CallTarget) /\ SandboxThrow /\ Calls = {}

IndexReads == {i \in 1 .. Len(ev.tr) : ev.tr[i][1] \in {"indexRead", "hookIndexRead"}}
IndexWrites == {i \in 1 .. Len(ev.tr) : ev.tr[i][1] \in {"indexWrite", "hookIndexWrite"}}

\* C3: a value obtained by an indexed read, directly or from readIndexHook,
\* that is Function, a window or a DOM element is never returned: the read
\* throws a sandbox error; and an indexed write to such an object throws a
\* sandbox error before anything is written, directly or by writeIndexHook.
C3_IndexedAccessGuarded ==
    /\ (ev.on /\ compiled.src.op = "index") =>
          /\ \A i \in IndexReads : Unsafe(ev.pre, ev.tr[i][4]) => SandboxThrow
          /\ ev.kind = "value" => ~Unsafe(ev.pre, ev.v)
    /\ (ev.on /\ compiled.src.op = "indexAssign") =>
          /\ \A i \in IndexWrites : ~Unsafe(ev.pre, ev.tr[i][2])
          /\ Unsafe(ev.pre, RefRead(ev.pre, compiled.src.q, ev.scope, ev.locals)) =>
                SandboxThrow /\ IndexWrites = {} /\ heap = ev.pre

C3_Witness ==
    /\ ev.on /\ compiled.src.op = "index" /\ SandboxThrow
    /\ \E i \in IndexReads : ev.tr[i][1] = "hookIndexRead" /\ IsFunctionCtor(ev.pre, ev.tr[i][4])

C3_WitnessWrite ==
    /\ ev.on /\ compiled.src.op = "indexAssign" /\ SandboxThrow
    /\ IsFunctionCtor(ev.pre, RefRead(ev.pre, compiled.src.q, ev.scope, ev.locals))
    /\ getRuntimeHooks(ev.locals).writeIndex

\* the errors thrown in this state: by the last compile call, by the evaluation
Thrown ==
    (IF compiled.src.op # "none" /\ ~compiled.ok THEN {compiled.err} ELSE {})
    \cup (IF ev.on /\ ev.kind = "throw" THEN {ev.err} ELSE {})

\* the errors of a blocked unsafe access, and one of each malformed expression
UnsafeAccessErrs == SandboxErrs \cup {ensureSafeMemberNameErr}
MalformedErrs ==
    {lexerThrowError("Unexpected next character"), throwError("is an unexpected token")}

\* what an error object tells its catcher besides the message text
KindOf(e) == e.name

\* C4: a thrown reserved-name, function-object, window or DOM-element error
\* carries a kind that differs from the kind of each of the other three and
\* from the kind of lex errors and of syntax errors.
C4_ErrorKindsDistinct ==
    \A e \in Thrown \cap UnsafeAccessErrs :
        \A d \in (UnsafeAccessErrs \cup MalformedErrs) \ {e} : KindOf(d) # KindOf(e)

----------------------------------------------------------------------------
(* compileExpression with and without the caller's expression cache *)

CacheSources ==
    {Path(<<"a">>), Path(<<"a", "b">>), Path(<<"a", Ctor>>), CallAssign(<<"a">>, Num(7))}

InitCache ==
    /\ heap = ChainHeap(2, Num(5))
    /\ getterFnCache = {}
    /\ compiled = NoCompile
    /\ ev = NoEval
    /\ cache = <<>>
    /\ parses = <<>>
    /\ literal = NoLiteral
    /\ binding = NoBinding
    /\ weakMap = NoWeakMap
    /\ virtual = NoVirtual
    /\ lexer = NoLexer
    /\ router = NoRouter

NextCache ==
    \/ \E src \in CacheSources, withCache \in BOOLEAN : compileExpression(src, withCache)
    \/ Evaluate(Ref(1), UndefLocals)

SpecCache == InitCache /\ [][NextCache]_vars

\* the memo: an entry is the expression parsed from its own source by one call
\* given the cache; a call that finds an entry returns it without parsing;
\* a call that finds none parses, and stores what the parser returned; a
\* call without the cache parses
CacheIsMemo ==
    /\ \A src \in DOMAIN cache : cache[src] = src /\ ParsesOf(parses, src) = 1
    /\ compiled.src.op # "none" =>
          /\ ~compiled.withCache => compiled.parsed
          /\ (compiled.withCache /\ ~compiled.parsed) =>
                /\ compiled.src \in DOMAIN cache
                /\ compiled.ok /\ compiled.expr = cache[compiled.src]
          /\ (compiled.withCache /\ compiled.parsed) =>
                (compiled.ok <=> compiled.src \in DOMAIN cache)

\* C10 as stated: the cache is a pure memo and, after any calls with the same
\* cache, every source has been parsed at most once.
C10_EachSourceParsedAtMostOnce ==
    /\ CacheIsMemo
    /\ \A src \in DOMAIN parses : parses[src] <= 1

\* C10, amended: the cache is a pure memo and every source that compiles is
\* parsed at most once by the calls given the cache; a source whose
\* compilation throws is never stored and is parsed again by every call.
C10_CompiledSourceParsedAtMostOnce ==
    /\ CacheIsMemo
    /\ \A src \in DOMAIN parses :
          \/ parses[src] <= 1
          \/ src \notin DOMAIN cache /\ ~parse(getterFnCache, src).ok
    /\ (compiled.src.op # "none" /\ ~compiled.ok) => compiled.src \notin DOMAIN cache

C10_Witness ==
    /\ compiled.withCache /\ ~compiled.parsed /\ compiled.ok /\ ev.on
    /\ \E src \in DOMAIN parses : parses[src] = 2
    /\ \E src \in DOMAIN cache : src # compiled.src

----------------------------------------------------------------------------
(* The words of the sources *)

N0 == NumW(0, "0")
N1 == NumW(1, "1")
N2 == NumW(2, "2")
LParen == Pn("(")
RParen == Pn(")")
Plus == Op1("+")
Minus == Op1("-")
Times == Op1("*")
Assigns == Op1("=")
Pipe == Op1("|")
Colon == Pn(":")

----------------------------------------------------------------------------
(* Call sites, compiled with and without disallowFunctionCalls: the scope   *)
(* holds the function f, the number n = 0 and the object o with the method  *)
(* m; g is missing                                                          *)

CallHeap ==
    [o \in ObjIds |->
        IF o = 1 THEN {<<"f", Ref(2)>>, <<"n", Num(0)>>, <<"o", Ref(3)>>}
        ELSE IF o = 2 THEN {<<"@call", Num(7)>>}
        ELSE IF o = 3 THEN {<<"m", Ref(2)>>}
        ELSE EmptyObj]

AbsentCall == Text(<<Id("g"), LParen, RParen>>)
FalsyCall == Text(<<Id("n"), LParen, RParen>>)

CallSources ==
    {Text(<<Id("f"), LParen, RParen>>), AbsentCall, FalsyCall,
     Text(<<Id("o"), Pn("."), NameW("m"), LParen, RParen>>),
     Text(<<Id("f"), LParen, N1, Pn(","), N2, RParen>>),
     Text(<<N1, Plus, Id("f"), LParen, RParen>>),
     Text(<<LParen, Id("f"), RParen, LParen, RParen>>),
     Text(<<Id("f")>>),
     Text(<<N1, Plus, N2>>),
     Text(<<LParen, N1, Plus, N2, RParen, Times, N2>>)}

InitCall ==
    /\ heap = CallHeap
    /\ getterFnCache = {}
    /\ compiled = NoCompile
    /\ ev = NoEval
    /\ cache = <<>>
    /\ parses = <<>>
    /\ literal = NoLiteral
    /\ binding = NoBinding
    /\ weakMap = NoWeakMap
    /\ virtual = NoVirtual
    /\ lexer = NoLexer
    /\ router = NoRouter

NextCall ==
    \/ \E src \in CallSources, disallow \in BOOLEAN :
            compileWith(src, ParserOptions(disallow, TRUE, {}), FALSE)
    \/ \E scope \in {Ref(1), Ref(3)} : Evaluate(scope, UndefLocals)

SpecCall == InitCall /\ [][NextCall]_vars

\* a `(` that follows a primary: an identifier, a method name, `)` or `]`
CallSite(toks) ==
    \E i \in 2 .. Len(toks) :
        /\ toks[i].text = "("
        /\ toks[i - 1].kind \in {"ident", "name"} \/ toks[i - 1].text \in {")", "]"}

\* a syntax error that names a token of the source and its column
SyntaxErrorAtToken(e, toks) ==
    /\ e.name = "SyntaxError"
    /\ "token" \in DOMAIN e
    /\ \E i \in 1 .. Len(toks) : e.token = toks[i].text /\ e.column = Num(toks[i].index + 1)

\* C11: under disallowFunctionCalls the compilation of a source with a call
\* site fails with a syntax error that carries the offending token and its
\* column, and gives no compiled expression; without the option a call of
\* an absent or falsy target evaluates to undefined
C11_CallSitesAreSyntaxErrors ==
    /\ (compiled.parsed /\ compiled.src.op = "text"
            /\ compiled.options.disallowFunctionCalls /\ CallSite(compiled.src.toks))
        => (~compiled.ok /\ compiled.expr = NoSrc
                /\ SyntaxErrorAtToken(compiled.err, compiled.src.toks))
    /\ (ev.on /\ ~compiled.options.disallowFunctionCalls
            /\ compiled.src \in {AbsentCall, FalsyCall})
        => (ev.kind = "value" /\ ev.v = Undef)

\* what the code does for C11: no compiled expression is returned, and the
\* error is the TypeError of `token.text`
C11_CallSitesFailToCompile ==
    /\ (compiled.parsed /\ compiled.src.op = "text"
            /\ compiled.options.disallowFunctionCalls /\ CallSite(compiled.src.toks))
        => (~compiled.ok /\ compiled.expr = NoSrc /\ compiled.err.name = "TypeError")
    /\ (ev.on /\ ~compiled.options.disallowFunctionCalls
            /\ compiled.src \in {AbsentCall, FalsyCall})
        => (ev.kind = "value" /\ ev.v = Undef)

C11_Witness ==
    /\ compiled.parsed /\ compiled.options.disallowFunctionCalls
    /\ compiled.src = Text(<<N1, Plus, Id("f"), LParen, RParen>>)
    /\ ~compiled.ok

C11_WitnessNoop ==
    /\ ev.on /\ compiled.src = FalsyCall /\ ev.kind = "value" /\ ev.v = Undef
    /\ ~compiled.options.disallowFunctionCalls

----------------------------------------------------------------------------
(* Malformed and well-formed sources, compiled with the filters p, q and r  *)
(* registered                                                               *)

Query == Pn("?")

\* tokens are left after the statements
UnconsumedSources ==
    {Text(<<N1, N2>>), Text(<<Id("a"), RParen>>), Text(<<N1, Plus, N2, RParen>>)}

\* another token stands where `)` or `:` is expected
LacksTokenSources ==
    {Text(<<LParen, N1, N2>>), Text(<<Id("f"), LParen, N1, N2>>),
     Text(<<Id("a"), Query, N1, N2>>)}

\* the source ends where an operand is expected
EndsAtOperandSources ==
    {Text(<<N1, Plus>>), Text(<<N1, Times>>), Text(<<Op1("!")>>),
     Text(<<Id("a"), Assigns>>), Text(<<Id("a"), Query, N1, Colon>>)}

\* the source ends where a filter name is expected
EndsAtFilterNameSources == {Text(<<Id("a"), Pipe>>)}

\* the source ends where `)` or `:` is expected
EndsAtClosingSources ==
    {Text(<<LParen, N1>>), Text(<<Id("f"), LParen, N1>>), Text(<<Id("f"), LParen>>),
     Text(<<Id("a"), Query, N1>>)}

MalformedSources ==
    UnconsumedSources \cup LacksTokenSources \cup EndsAtOperandSources
        \cup EndsAtFilterNameSources \cup EndsAtClosingSources

WellFormedSources ==
    {Text(<<N1, Plus, N2>>), Text(<<Id("a"), Pipe, Id("p")>>),
     Text(<<LParen, N1, RParen>>), Text(<<Id("a"), Query, N1, Colon, N2>>),
     Text(<<Id("f"), LParen, N1, RParen>>), Text(<<Id("a"), Assigns, N1>>)}

InitSyntax ==
    /\ heap = CallHeap
    /\ getterFnCache = {}
    /\ compiled = NoCompile
    /\ ev = NoEval
    /\ cache = <<>>
    /\ parses = <<>>
    /\ literal = NoLiteral
    /\ binding = NoBinding
    /\ weakMap = NoWeakMap
    /\ virtual = NoVirtual
    /\ lexer = NoLexer
    /\ router = NoRouter

NextSyntax ==
    \/ \E src \in MalformedSources \cup WellFormedSources :
            compileWith(src, ParserOptions(FALSE, TRUE, FilterNames), FALSE)
    \/ \E scope \in {Ref(1), Ref(3)} : Evaluate(scope, UndefLocals)

SpecSyntax == InitSyntax /\ [][NextSyntax]_vars

\* C12: compiling a source that leaves tokens unconsumed, lacks an expected
\* token, or ends where an operand, a filter name or a closing token is
\* expected raises a syntax error and gives no compiled expression; where
\* a token of the source is in the way, the error carries its text and its
\* 1-based column
C12_MalformedSourcesRaiseSyntaxErrors ==
    /\ (compiled.parsed /\ compiled.src \in MalformedSources)
        => (~compiled.ok /\ compiled.expr = NoSrc /\ compiled.err.name = "SyntaxError")
    /\ (compiled.parsed /\ compiled.src \in UnconsumedSources \cup LacksTokenSources)
        => SyntaxErrorAtToken(compiled.err, compiled.src.toks)

\* the compilation of `( 1 2` names the token `2` at column 5
C12_Witness ==
    /\ compiled.parsed /\ compiled.src = Text(<<LParen, N1, N2>>) /\ ~compiled.ok
    /\ compiled.err.token = "2" /\ compiled.err.column = Num(5)

\* `a |` compiles, and the compiled expression throws when it is evaluated
C12_WitnessCompiles ==
    /\ compiled.src \in EndsAtFilterNameSources /\ compiled.ok
    /\ ev.on /\ ev.kind = "throw" /\ ev.err.name = "TypeError"

----------------------------------------------------------------------------
(* Assignments `L = R` to left-hand sides of every kind                     *)

Dot == Pn(".")

\* the left-hand side compiles to the closure of an identifier path, a field
\* access or an index access: unary plus and parentheses give the closure
\* of their operand
AssignableSources ==
    {Text(<<Id("n"), Assigns, N1>>),
     Text(<<IdPath(<<"o", "x">>, "o.x", 3), Assigns, N1>>),
     Text(<<LParen, Id("o"), RParen, Dot, Id("x"), Assigns, N2>>),
     Text(<<Id("o"), Pn("["), StrW("x", "'x'"), Pn("]"), Assigns, N2>>),
     Text(<<Plus, Id("n"), Assigns, N2>>),
     Text(<<LParen, Id("n"), RParen, Assigns, N2>>)}

\* the left-hand side is a literal, a call result or an operator expression
UnassignableSources ==
    {Text(<<N1, Assigns, N2>>),
     Text(<<TrueW, Assigns, N1>>),
     Text(<<Id("f"), LParen, RParen, Assigns, N1>>),
     Text(<<Id("n"), Plus, N1, Assigns, N2>>),
     Text(<<Op1("!"), Id("n"), Assigns, N1>>),
     Text(<<Minus, Id("n"), Assigns, N1>>),
     Text(<<Id("n"), Op2("||"), Id("n"), Assigns, N1>>),
     Text(<<Id("n"), Query, N1, Colon, Id("n"), Assigns, N2>>)}

InitAssign ==
    /\ heap = CallHeap
    /\ getterFnCache = {}
    /\ compiled = NoCompile
    /\ ev = NoEval
    /\ cache = <<>>
    /\ parses = <<>>
    /\ literal = NoLiteral
    /\ binding = NoBinding
    /\ weakMap = NoWeakMap
    /\ virtual = NoVirtual
    /\ lexer = NoLexer
    /\ router = NoRouter

NextAssign ==
    \/ \E src \in AssignableSources \cup UnassignableSources :
            compileExpression(src, FALSE)
    \/ Evaluate(Ref(1), UndefLocals)

SpecAssign == InitAssign /\ [][NextAssign]_vars

\* the position of the `=` of a source
AssignAt(toks) == CHOOSE k \in 1 .. Len(toks) : toks[k].text = "="

\* the value the scope holds at the place the source assigns to
AssignedPlace(h, toks) ==
    IF \E k \in 1 .. Len(toks) : toks[k].text \in {"o", "o.x"}
    THEN ObjGet(h[3], "x") ELSE ObjGet(h[1], "n")

\* C13: `L = R` compiles when L compiles to an identifier path, a field
\* access or an index access, and its evaluation then assigns the value of
\* R; for a literal, a call result or an operator expression the
\* compilation fails with a syntax error at the `=` that quotes the source
\* before it, and no compiled expression exists that could assign
C13_AssignmentNeedsAssignableLeft ==
    /\ (compiled.parsed /\ compiled.src \in AssignableSources)
        => (compiled.ok /\ compiled.err = NoErr)
    /\ (ev.on /\ compiled.src \in AssignableSources)
        => (/\ ev.kind = "value"
            /\ ev.v = compiled.src.toks[Len(compiled.src.toks)].v
            /\ AssignedPlace(heap, compiled.src.toks) = ev.v)
    /\ (compiled.parsed /\ compiled.src \in UnassignableSources)
        => (/\ ~compiled.ok /\ compiled.expr = NoSrc /\ ~ev.on
            /\ compiled.err.name = "SyntaxError"
            /\ compiled.err.token = "="
            /\ compiled.err.column
                    = Num(compiled.src.toks[AssignAt(compiled.src.toks)].index + 1)
            /\ compiled.err.before
                    = [k \in 1 .. AssignAt(compiled.src.toks) - 1 |->
                            compiled.src.toks[k].text])

\* a field assignment was evaluated after the compilation of an assignment
\* to a call result had failed
C13_Witness ==
    /\ ev.on /\ ev.kind = "value" /\ ev.v = Num(2)
    /\ compiled.src = Text(<<LParen, Id("o"), RParen, Dot, Id("x"), Assigns, N2>>)
    /\ ObjGet(heap[3], "x") = Num(2)
    /\ <<"f">> \in getterFnCache

C13_WitnessRejected ==
    /\ compiled.parsed /\ ~compiled.ok
    /\ compiled.src = Text(<<Id("f"), LParen, RParen, Assigns, N1>>)
    /\ compiled.err.column = Num(7)

----------------------------------------------------------------------------
(* Filter chains, compiled with the filters p, q and r registered: p gives  *)
(* its input, q its last argument, r its input minus its first argument     *)

\* a source with the calls of filters its evaluation is to make, each the
\* name and the arguments
FilterCase(words, calls) == [src |-> Text(words), calls |-> calls]

FilterCases ==
    {FilterCase(<<Id("n"), Pipe, Id("p")>>, <<<<"p", <<Num(0)>>>>>>),
     FilterCase(<<N2, Pipe, Id("q"), Colon, N1>>, <<<<"q", <<Num(2), Num(1)>>>>>>),
     FilterCase(<<N2, Pipe, Id("r"), Colon, N1>>, <<<<"r", <<Num(2), Num(1)>>>>>>),
     FilterCase(<<N1, Pipe, Id("r"), Colon, N2>>, <<<<"r", <<Num(1), Num(2)>>>>>>),
     FilterCase(<<N2, Pipe, Id("q"), Colon, N1, Colon, Id("n")>>,
                <<<<"q", <<Num(2), Num(1), Num(0)>>>>>>),
     FilterCase(<<N1, Plus, N1, Pipe, Id("r"), Colon, N2, Times, N2>>,
                <<<<"r", <<Num(2), Num(4)>>>>>>),
     FilterCase(<<N2, Pipe, Id("r"), Colon, N1, Pipe, Id("r"), Colon, N2>>,
                <<<<"r", <<Num(2), Num(1)>>>>, <<"r", <<Num(1), Num(2)>>>>>>)}

\* the name z is not registered
UnregisteredSources ==
    {Text(<<N2, Pipe, Id("z")>>), Text(<<Id("n"), Pipe, Id("z"), Colon, N1>>)}

InitFilter ==
    /\ heap = CallHeap
    /\ getterFnCache = {}
    /\ compiled = NoCompile
    /\ ev = NoEval
    /\ cache = <<>>
    /\ parses = <<>>
    /\ literal = NoLiteral
    /\ binding = NoBinding
    /\ weakMap = NoWeakMap
    /\ virtual = NoVirtual
    /\ lexer = NoLexer
    /\ router = NoRouter

NextFilter ==
    \/ \E src \in {c.src : c \in FilterCases} \cup UnregisteredSources :
            compileWith(src, ParserOptions(FALSE, TRUE, FilterNames), FALSE)
    \/ \E scope \in {Ref(1), Ref(3)} : Evaluate(scope, UndefLocals)

SpecFilter == InitFilter /\ [][NextFilter]_vars

IsFilterCall(e) == e[1] = "filter"

\* the calls of filters an evaluation made: name and arguments
FilterCalls == [k \in 1 .. Len(SelectSeq(ev.tr, IsFilterCall)) |->
                    <<SelectSeq(ev.tr, IsFilterCall)[k][3],
                      SelectSeq(ev.tr, IsFilterCall)[k][2]>>]

\* C14: `e | f : a1 : ... : an` evaluates to the registered filter f applied
\* to the value of e followed by the values of a1..an in order; with a name
\* that is not registered the compilation succeeds and the error is raised
\* when the compiled expression is evaluated
C14_FilterAppliedToInputThenArguments ==
    /\ \A c \in FilterCases :
            (ev.on /\ compiled.src = c.src /\ ev.scope = Ref(1))
                => (/\ ev.kind = "value"
                    /\ FilterCalls = c.calls
                    /\ ev.v = FilterApply(c.calls[Len(c.calls)][1],
                                          c.calls[Len(c.calls)][2]))
    /\ (compiled.parsed /\ compiled.src \in UnregisteredSources)
            => (compiled.ok /\ compiled.err = NoErr)
    /\ (ev.on /\ compiled.src \in UnregisteredSources)
            => (ev.kind = "throw" /\ FilterCalls = <<>>)

\* `1 | r : 2` was evaluated to -1
C14_Witness ==
    /\ ev.on /\ compiled.src = Text(<<N1, Pipe, Id("r"), Colon, N2>>)
    /\ ev.v = Num(0 - 1)
    /\ FilterCalls = <<<<"r", <<Num(1), Num(2)>>>>>>

C14_WitnessUnregistered ==
    /\ ev.on /\ compiled.src \in UnregisteredSources /\ compiled.ok /\ ev.kind = "throw"

----------------------------------------------------------------------------
(* `+` and `-` on the scope {x, y}, g missing: x is a number, a boolean or  *)
(* null, y a number                                                         *)

OpsHeap(x, y) ==
    [o \in ObjIds |-> IF o = 1 THEN {<<"x", x>>, <<"y", y>>} ELSE EmptyObj]

OpsHeaps ==
    {OpsHeap(x, y) : x \in {Num(0 - 1), Num(0), Num(2), True, Null},
                     y \in {Num(1), Num(3)}}

\* the words that evaluate to undefined: the constant and the missing g
UndefinedWords == {UndefinedW, Id("g")}

UndefinedPlusX == {Text(<<u, Plus, Id("x")>>) : u \in UndefinedWords}
XPlusUndefined == {Text(<<Id("x"), Plus, u>>) : u \in UndefinedWords}
UndefinedMinusX == {Text(<<u, Minus, Id("x")>>) : u \in UndefinedWords}
XPlusY == {Text(<<Id("x"), Plus, Id("y")>>)}
XMinusY == {Text(<<Id("x"), Minus, Id("y")>>)}

OpsSources ==
    UndefinedPlusX \cup XPlusUndefined \cup UndefinedMinusX \cup XPlusY \cup XMinusY
        \cup {Text(<<Id("x"), Minus, UndefinedW>>), Text(<<N1, Plus, N2>>),
              Text(<<UndefinedW, Plus, Id("g")>>)}

InitOps ==
    /\ heap \in OpsHeaps
    /\ getterFnCache = {}
    /\ compiled = NoCompile
    /\ ev = NoEval
    /\ cache = <<>>
    /\ parses = <<>>
    /\ literal = NoLiteral
    /\ binding = NoBinding
    /\ weakMap = NoWeakMap
    /\ virtual = NoVirtual
    /\ lexer = NoLexer
    /\ router = NoRouter

NextOps ==
    \/ \E src \in OpsSources : compileExpression(src, FALSE)
    \/ Evaluate(Ref(1), UndefLocals)

SpecOps == InitOps /\ [][NextOps]_vars

\* the number JavaScript takes a number, a boolean or null for
NumberOf(v) == IF v[1] = "null" THEN 0 ELSE v[2]

ScopeX == ObjGet(heap[1], "x")
ScopeY == ObjGet(heap[1], "y")

\* C15: `undefined + x` and `x + undefined` are x and `undefined - x` is -x,
\* for every defined x; with both operands defined `+` and `-` are the
\* addition and the subtraction of JavaScript
C15_UndefinedIsIdentityOfPlusAndMinus ==
    ev.on =>
        /\ compiled.src \in UndefinedPlusX \cup XPlusUndefined
                => (ev.kind = "value" /\ ev.v = ScopeX)
        /\ compiled.src \in UndefinedMinusX
                => (ev.kind = "value" /\ ev.v = Num(0 - NumberOf(ScopeX)))
        /\ compiled.src \in XPlusY
                => (ev.kind = "value"
                        /\ ev.v = Num(NumberOf(ScopeX) + NumberOf(ScopeY)))
        /\ compiled.src \in XMinusY
                => (ev.kind = "value"
                        /\ ev.v = Num(NumberOf(ScopeX) - NumberOf(ScopeY)))

\* `g - x` was evaluated to -2
C15_Witness ==
    /\ ev.on /\ compiled.src = Text(<<Id("g"), Minus, Id("x")>>)
    /\ ScopeX = Num(2) /\ ev.v = Num(0 - 2)

C15_WitnessPlus ==
    /\ ev.on /\ compiled.src = Text(<<Id("x"), Plus, UndefinedW>>)
    /\ ScopeX = True /\ ev.v = True

----------------------------------------------------------------------------
(* Sources of two binary operators of different levels, and sources that    *)
(* put the other levels next to each other                                  *)

BinaryOps == {"||", "&&", "==", "<", "+", "*"}

\* the levels of the binary operators, the loosest first
Level(f) == CASE f = "||" -> 1 [] f = "&&" -> 2 [] f = "==" -> 3
              [] f = "<" -> 4 [] f = "+" -> 5 [] f = "*" -> 6

OpWord(f) == IF f \in {"||", "&&", "=="} THEN Op2(f) ELSE Op1(f)
NumWord(n) == <<N0, N1, N2>>[n + 1]

OperandTriples == {<<1, 0, 0>>, <<2, 1, 2>>, <<0, 2, 1>>}

\* the source `a f b g c`
Pair(t, f, g) ==
    Text(<<NumWord(t[1]), OpWord(f), NumWord(t[2]), OpWord(g), NumWord(t[3])>>)

PairSources ==
    {Pair(t, f, g) : t \in OperandTriples, f \in BinaryOps, g \in BinaryOps}

\* a source with the value its evaluation is to give
LevelCase(words, v) == [v |-> v, src |-> Text(words)]

LevelCases ==
    {LevelCase(<<N1, Op2("||"), N0, Op2("&&"), N0>>, Num(1)),
     LevelCase(<<TrueW, Query, N1, Colon, N2>>, Num(1)),
     \* ternary below logical OR
     LevelCase(<<N2, Op2("||"), N0, Query, N1, Colon, N0>>, Num(1)),
     \* assignment below ternary
     LevelCase(<<Id("n"), Assigns, N1, Query, N2, Colon, N0>>, Num(2)),
     \* filter chain below assignment
     LevelCase(<<Id("n"), Assigns, N1, Pipe, Id("r"), Colon, N1>>, Num(0)),
     \* statements: the last value
     LevelCase(<<N1, Pn(";"), N2, Plus, N1>>, Num(3)),
     \* unary above multiplicative and additive
     LevelCase(<<Op1("!"), N0, Times, N2>>, Num(2)),
     LevelCase(<<Op1("!"), N1, Plus, N1>>, Num(1)),
     \* primary above all
     LevelCase(<<N2, Times, LParen, N1, Plus, N1, RParen>>, Num(4))}

InitLevels ==
    /\ heap = CallHeap
    /\ getterFnCache = {}
    /\ compiled = NoCompile
    /\ ev = NoEval
    /\ cache = <<>>
    /\ parses = <<>>
    /\ literal = NoLiteral
    /\ binding = NoBinding
    /\ weakMap = NoWeakMap
    /\ virtual = NoVirtual
    /\ lexer = NoLexer
    /\ router = NoRouter

NextLevels ==
    \/ \E src \in PairSources \cup {c.src : c \in LevelCases} :
            compileWith(src, ParserOptions(FALSE, TRUE, FilterNames), FALSE)
    \/ Evaluate(Ref(1), UndefLocals)

SpecLevels == InitLevels /\ [][NextLevels]_vars

\* a binary operator of JavaScript on two values
Binary(f, a, b) ==
    IF f = "&&" THEN (IF Truthy(a) THEN b ELSE a)
    ELSE IF f = "||" THEN (IF Truthy(a) THEN a ELSE b)
    ELSE OPERATORS(f, a, b)

\* the value of `a f b g c` when the operator of the higher level binds
\* tighter
PairValue(t, f, g) ==
    IF Level(f) > Level(g)
    THEN Binary(g, Binary(f, Num(t[1]), Num(t[2])), Num(t[3]))
    ELSE Binary(f, Num(t[1]), Binary(g, Num(t[2]), Num(t[3])))

\* C16: the operators bind from statements, the loosest, over filter chain,
\* assignment, ternary, logical OR, logical AND, equality, relational,
\* additive, multiplicative and unary to primary: of two binary operators
\* of different levels the one of the higher level takes its operands
\* first, `1 || 0 && 0` is 1 and `true ? 1 : 2` is 1
C16_OperatorsBindByLevel ==
    ev.on =>
        /\ \A t \in OperandTriples, f \in BinaryOps, g \in BinaryOps :
                (Level(f) # Level(g) /\ compiled.src = Pair(t, f, g))
                    => (ev.kind = "value" /\ ev.v = PairValue(t, f, g))
        /\ \A c \in LevelCases :
                compiled.src = c.src => (ev.kind = "value" /\ ev.v = c.v)
        /\ compiled.src = Text(<<Id("n"), Assigns, N1, Pipe, Id("r"), Colon, N1>>)
                => ObjGet(heap[1], "n") = Num(1)

\* `1 || 0 && 0` was evaluated to 1
C16_Witness ==
    /\ ev.on /\ compiled.src = Pair(<<1, 0, 0>>, "||", "&&")
    /\ ev.kind = "value" /\ ev.v = Num(1)

C16_WitnessTernary ==
    /\ ev.on /\ compiled.src = Text(<<TrueW, Query, N1, Colon, N2>>) /\ ev.v = Num(1)

----------------------------------------------------------------------------
(* Object literals: parseObjectLiteral on texts written from key/value      *)
(* pairs                                                                    *)

\* the most pairs of one text
MaxPairs == 2

\* the keys: names, a quoted name and the quoted empty name
LiteralKeys == {Plain("a", "a"), Plain("b", "b"), Quoted("a-b"), Quoted("")}

\* the values: 1, f(1,2), [1,2], {k:1,j:2}, x?y:z, 'p,q' as the token
\* pattern splits them, and no value
LiteralValues ==
    { <<Plain("1", "1")>>,
      <<Plain("f", "f"), Plain("(1", "("), CommaTok, Plain("2", "2"), Plain(")", ")")>>,
      <<Plain("[1", "["), CommaTok, Plain("2", "2"), Plain("]", "]")>>,
      <<Plain("{k", "{"), ColonTok, Plain("1", "1"), CommaTok, Plain("j", "j"),
        ColonTok, Plain("2", "2"), Plain("}", "}")>>,
      <<Plain("x?y", "x"), ColonTok, Plain("z", "z")>>,
      <<Quoted("p,q")>>,
      <<>> }

LiteralPairs == {<<k, v>> : k \in LiteralKeys, v \in LiteralValues}

LiteralTexts == UNION {[1..n -> LiteralPairs] : n \in 1..MaxPairs}

\* the tokens of `key: value`, of `key` when there is no value
WrittenPair(p) == IF p[2] = <<>> THEN <<p[1]>> ELSE <<p[1], ColonTok>> \o p[2]

\* the tokens of the pairs from i on, a comma between two pairs
RECURSIVE Written(_, _)
Written(pairs, i) ==
    IF i > Len(pairs) THEN <<>>
    ELSE IF i = Len(pairs) THEN WrittenPair(pairs[i])
    ELSE WrittenPair(pairs[i]) \o <<CommaTok>> \o Written(pairs, i + 1)

InitLiteral ==
    /\ heap = CallHeap
    /\ getterFnCache = {}
    /\ compiled = NoCompile
    /\ ev = NoEval
    /\ cache = <<>>
    /\ parses = <<>>
    /\ literal \in {[toks |-> Written(t, 1), on |-> FALSE, result |-> <<>>,
                      pairs |-> t] : t \in LiteralTexts}
    /\ binding = NoBinding
    /\ weakMap = NoWeakMap
    /\ virtual = NoVirtual
    /\ lexer = NoLexer
    /\ router = NoRouter

NextLiteral == ParseLiteral

SpecLiteral == InitLiteral /\ [][NextLiteral]_vars

\* the key a key token stands for
KeyName(k) == IF k.c = "'" THEN k.body ELSE k.text

\* the pairs that have a value, in their order
KeyValuePairs(pairs) == SelectSeq(pairs, LAMBDA p : p[2] # <<>>)

\* the entries of a result that have a key, in their order
KeyEntries(result) == SelectSeq(result, LAMBDA e : "key" \in DOMAIN e)

\* the entry of a key/value pair: its key and the text of its value tokens
EntryOf(p) == [key |-> KeyName(p[1]), value |-> Join(p[2], 1)]

EntriesOf(pairs) == [i \in 1..Len(pairs) |-> EntryOf(pairs[i])]

\* C17: parseObjectLiteral returns one entry per key/value pair in source
\* order, duplicates included; the key of the entry is the first token of the
\* pair without its quotes and its value is the text of all tokens after the
\* colon up to the next comma outside parentheses, brackets and braces
C17_OneEntryPerPair ==
    literal.on => KeyEntries(literal.result) = EntriesOf(KeyValuePairs(literal.pairs))

\* the pairs whose key is not the empty string
NamedPairs(pairs) == SelectSeq(pairs, LAMBDA p : KeyName(p[1]) # "")

\* C17 for the texts whose keys are not empty: one entry per key/value pair,
\* in source order
C17_OneEntryPerNamedPair ==
    (literal.on /\ NamedPairs(literal.pairs) = literal.pairs)
        => KeyEntries(literal.result) = EntriesOf(KeyValuePairs(literal.pairs))

\* `a: f(1,2), a: {k:1,j:2}` gave two entries of key a, the commas of the
\* values kept in them
C17_Witness ==
    /\ literal.on
    /\ Len(literal.pairs) = 2
    /\ literal.result = <<[key |-> "a", value |-> "f(1,2)"],
                          [key |-> "a", value |-> "{k:1,j:2}"]>>

\* `'': 1` gave the entry of a key 1 without a value
C17_WitnessEmptyKey ==
    /\ literal.on
    /\ literal.pairs = <<<<Quoted(""), <<Plain("1", "1")>>>>>>
    /\ literal.result = <<[unknown |-> "1"]>>

----------------------------------------------------------------------------
(* Hooks: evaluations of one compiled expression with and without hooks on  *)
(* their locals                                                             *)

HookLocals ==
    {UndefLocals}
    \cup {MkLocals({}, hk) : hk \in {NoHooks, ReadHook, WriteHook(FALSE),
                                     ReadWriteHook(TRUE)}}

HookSources ==
    {Path(<<"a">>), Path(<<"a", "b">>), Path(<<"a", "b", "c">>),
     Assign(<<"a">>, Num(0)), Assign(<<"a", "b">>, Num(0))}

InitHooks ==
    /\ heap \in {ChainHeap(1, Num(5)), ChainHeap(2, Num(5)), ChainHeap(3, Num(5))}
    /\ getterFnCache = {}
    /\ compiled = NoCompile
    /\ ev = NoEval
    /\ cache = <<>>
    /\ parses = <<>>
    /\ literal = NoLiteral
    /\ binding = NoBinding
    /\ weakMap = NoWeakMap
    /\ virtual = NoVirtual
    /\ lexer = NoLexer
    /\ router = NoRouter

NextHooks ==
    \/ \E src \in HookSources : compileExpression(src, FALSE)
    \/ \E locals \in HookLocals : Evaluate(Ref(1), locals)

SpecHooks == InitHooks /\ [][NextHooks]_vars

\* the accesses that are calls of a hook
HookKinds == {"hookRead", "hookWrite", "hookIndexRead", "hookIndexWrite"}

\* C18: the hooks belong to the evaluation whose locals carry them: an
\* evaluation whose locals carry no hooks calls no hook, reads the properties
\* of the path itself and writes the assigned property itself, whatever hooks
\* the evaluations of the compiled expression before it were given
C18_HooksEndWithTheirEvaluation ==
    (ev.on /\ ~CarriesHooks(ev.locals)) =>
        /\ \A i \in 1 .. Len(ev.tr) : ev.tr[i][1] \notin HookKinds
        /\ compiled.src.op = "path" =>
                ev.v = RefRead(ev.pre, compiled.src.p, ev.scope, ev.locals)
        /\ (compiled.src.op = "assign" /\ ev.kind = "value") =>
                RefRead(heap, compiled.src.p, ev.scope, ev.locals) = compiled.src.rhs

\* `a` was read from the scope itself after an evaluation with hooks
C18_Witness ==
    /\ ev.on /\ ev.earlier /\ ~CarriesHooks(ev.locals)
    /\ compiled.src = Path(<<"a">>)
    /\ Len(ev.tr) = 1 /\ ev.tr[1][1] = "read"

\* `a.b = 0` wrote the property itself after an evaluation whose hook kept
\* the write
C18_WitnessWrite ==
    /\ ev.on /\ ev.earlier /\ ~CarriesHooks(ev.locals)
    /\ compiled.src = Assign(<<"a", "b">>, Num(0))
    /\ \E i \in 1 .. Len(ev.tr) : ev.tr[i][1] = "write"
    /\ RefRead(ev.pre, <<"a", "b">>, ev.scope, ev.locals) = Num(5)

----------------------------------------------------------------------------
(* If bindings: an element bound to an observable property or a subject     *)

IfValues == {True, False, Num(1), Num(0), Undef}

IfContents == {<<"span">>, <<"text", "span">>}

InitIf ==
    /\ heap = CallHeap
    /\ getterFnCache = {}
    /\ compiled = NoCompile
    /\ ev = NoEval
    /\ cache = <<>>
    /\ parses = <<>>
    /\ literal = NoLiteral
    /\ binding \in {Unbound("property", inv, v, c) :
                        inv \in BOOLEAN, v \in IfValues, c \in IfContents}
                   \cup {Unbound("subject", inv, Undef, c) :
                            inv \in BOOLEAN, c \in IfContents}
    /\ weakMap = NoWeakMap
    /\ virtual = NoVirtual
    /\ lexer = NoLexer
    /\ router = NoRouter

NextIf ==
    \/ ApplyIf
    \/ \E x \in IfValues : SendValue(x)
    \/ DisposeIf

SpecIf == InitIf /\ [][NextIf]_vars

\* C19: a falsy value delivered to an if binding empties the element, and a
\* value the observable is sent after the binding has been disposed leaves
\* the children of the element as they are
C19_FalsyEmptiesAndDisposedIsDeaf ==
    [][binding'.sent # binding.sent =>
            /\ (binding.applied /\ ~binding.inverse /\ ~Truthy(binding'.value))
                    => binding'.content = <<>>
            /\ ~binding.applied => binding'.content = binding.content]_vars

\* the template was shown, a falsy value emptied the element, the binding was
\* disposed and a truthy value sent after that left the element empty
C19_Witness ==
    /\ ~binding.inverse /\ binding.captured /\ binding.first # <<>>
    /\ ~binding.applied /\ binding.late
    /\ Truthy(binding.value) /\ ~Truthy(binding.last)
    /\ binding.content = <<>>

\* C20: while the value delivered last to an active if binding is truthy,
\* the children of the element are one copy of the template of the first
\* application, in its order, over all values sent and over disposing and
\* applying again
C20_OneCopyOfTheTemplate ==
    (binding.applied /\ ~binding.inverse /\ binding.delivered /\ Truthy(binding.last))
        => binding.content = binding.first

\* the binding was disposed and applied again to a property that holds a
\* truthy value: one copy of the template
C20_Witness ==
    /\ binding.applied /\ ~binding.inverse /\ binding.applies = 2
    /\ binding.delivered /\ Truthy(binding.last)
    /\ binding.first # <<>> /\ binding.content = binding.first

\* a subject sent two truthy values: two copies of the template
C20_WitnessTwoCopies ==
    /\ binding.applied /\ ~binding.inverse /\ binding.kind = "subject"
    /\ binding.applies = 1 /\ binding.sent = 2
    /\ binding.content = binding.first \o binding.first /\ binding.first # <<>>

----------------------------------------------------------------------------
(* Weak maps: calls on an emulated and a native weak map over three keys     *)

WeakKeys == {Ref(1), Ref(2), Ref(3)}

WeakValues == {Undef, Num(1), Num(2)}

InitWeak ==
    /\ heap = CallHeap
    /\ getterFnCache = {}
    /\ compiled = NoCompile
    /\ ev = NoEval
    /\ cache = <<>>
    /\ parses = <<>>
    /\ literal = NoLiteral
    /\ binding = NoBinding
    /\ weakMap = NewWeakMap
    /\ virtual = NoVirtual
    /\ lexer = NoLexer
    /\ router = NoRouter

NextWeak ==
    \/ \E key \in WeakKeys, value \in WeakValues : WeakSet(key, value)
    \/ \E key \in WeakKeys : WeakGet(key)
    \/ \E key \in WeakKeys : WeakHas(key)
    \/ \E key \in WeakKeys : WeakDelete(key)

SpecWeak == InitWeak /\ [][NextWeak]_vars

\* the value set last for the key and not deleted since, by the calls made
\* on the native map
LastSet(key) ==
    IF \E p \in weakMap.native : p[1] = key
    THEN (CHOOSE p \in weakMap.native : p[1] = key)[2] ELSE Undef

\* C21: the emulated weak map returns what a native WeakMap returns for
\* every call of set, get, has and delete; get gives the value set last for
\* the key and undefined for a key never set or deleted, has tells whether
\* the key is set and not deleted, delete whether the key was present
C21_EmulatedAsNative ==
    weakMap.op \in {"get", "has", "delete"} =>
        /\ weakMap.emulated = weakMap.builtin
        /\ weakMap.op = "get" => weakMap.emulated = LastSet(weakMap.key)
        /\ weakMap.op = "has" => weakMap.emulated = Bool(weakMap.held)
        /\ weakMap.op = "delete" => weakMap.emulated = Bool(weakMap.held)

\* C21 for get, has and the delete of a key that is present
C21_EmulatedAsNativeForHeldKeys ==
    (weakMap.op \in {"get", "has"} \/ (weakMap.op = "delete" /\ weakMap.held)) =>
        /\ weakMap.emulated = weakMap.builtin
        /\ weakMap.op = "get" => weakMap.emulated = LastSet(weakMap.key)
        /\ weakMap.op \in {"has", "delete"} => weakMap.emulated = Bool(weakMap.held)

\* a key that was set was deleted and both maps returned true
C21_Witness ==
    /\ weakMap.op = "delete" /\ weakMap.held
    /\ weakMap.emulated = True /\ weakMap.builtin = True

\* the delete of a key that is not set returned true on the emulated map
C21_WitnessAbsent ==
    /\ weakMap.op = "delete" /\ ~weakMap.held
    /\ weakMap.emulated = True /\ weakMap.builtin = False

----------------------------------------------------------------------------
(* Virtual child nodes: an instance synchronised with its target node       *)

InitVirtual ==
    /\ heap = CallHeap
    /\ getterFnCache = {}
    /\ compiled = NoCompile
    /\ ev = NoEval
    /\ cache = <<>>
    /\ parses = <<>>
    /\ literal = NoLiteral
    /\ binding = NoBinding
    /\ weakMap = NoWeakMap
    /\ virtual \in {NewVirtual(dom, i, r) : dom \in {<<>>, <<1>>, <<1, 2>>},
                                           i \in BOOLEAN, r \in BOOLEAN}
    /\ lexer = NoLexer
    /\ router = NoRouter

NextVirtual ==
    \/ \E n \in 0 .. 2 : appendChilds(n)
    \/ \E index \in 0 .. MaxChildren, n \in 0 .. 2 : insertChilds(index, n)
    \/ \E index \in 0 .. MaxChildren, count \in 0 .. 2 : removeChilds(index, count)
    \/ clear

SpecVirtual == InitVirtual /\ [][NextVirtual]_vars

\* C22: the proxy array lists the child nodes of the target node in their
\* order after every appendChilds, insertChilds, removeChilds and clear;
\* insertCB was called once for each node inserted and removeCB once for
\* each node removed
C22_ProxyListsTheChildNodes ==
    virtual.on =>
        /\ virtual.childNodes = virtual.dom
        /\ (virtual.insertCB /\ virtual.op \in {"appendChilds", "insertChilds"})
                => virtual.inserted = virtual.given
        /\ (virtual.removeCB /\ virtual.op \in {"removeChilds", "clear"})
                => virtual.removed = virtual.given

\* C22 while every call was given at least one node
C22_ProxyListsTheChildNodesGiven ==
    (virtual.on /\ ~virtual.gaveNone) =>
        /\ virtual.childNodes = virtual.dom
        /\ ~virtual.threw
        /\ (virtual.insertCB /\ virtual.op \in {"appendChilds", "insertChilds"})
                => virtual.inserted = virtual.given
        /\ (virtual.removeCB /\ virtual.op \in {"removeChilds", "clear"})
                => virtual.removed = virtual.given

\* two nodes were inserted before the only child node
C22_Witness ==
    /\ virtual.on /\ virtual.op = "insertChilds" /\ ~virtual.gaveNone
    /\ virtual.insertCB /\ virtual.inserted = <<2, 3>>
    /\ virtual.dom = <<2, 3, 1>> /\ virtual.childNodes = virtual.dom

\* appendChilds([]) put undefined into the proxy array
C22_WitnessNoNodes ==
    /\ virtual.on /\ virtual.op = "appendChilds" /\ virtual.given = <<>>
    /\ virtual.dom = <<1>> /\ virtual.childNodes = <<1, NoNodeRef>>

----------------------------------------------------------------------------
(* Numbers: the lexer on texts of digits, dots, exponent markers and signs   *)

NumberChars == {"0", "1", ".", "e", "E", "+", "-", "x"}

TextsOf(chars) == UNION {[1 .. n -> chars] : n \in 1 .. MaxChars}

InitNumber ==
    /\ heap = CallHeap
    /\ getterFnCache = {}
    /\ compiled = NoCompile
    /\ ev = NoEval
    /\ cache = <<>>
    /\ parses = <<>>
    /\ literal = NoLiteral
    /\ binding = NoBinding
    /\ weakMap = NoWeakMap
    /\ virtual = NoVirtual
    /\ lexer \in {ToLex(t) : t \in TextsOf(NumberChars)}
    /\ router = NoRouter

NextNumber == LexText

SpecNumber == InitNumber /\ [][NextNumber]_vars

\* an exponent: e or E, a sign or none, one digit or more
IsExponent(c) ==
    /\ Len(c) >= 2
    /\ c[1] \in {"e", "E"}
    /\ LET d == IF c[2] \in {"+", "-"} THEN SubSeq(c, 3, Len(c)) ELSE SubSeq(c, 2, Len(c))
       IN  d # <<>> /\ AllDigits(d)

\* a fractional part: a dot and digits
IsFraction(c) == c # <<>> /\ c[1] = "." /\ AllDigits(SubSeq(c, 2, Len(c)))

\* c is whole digits up to i, a fractional part or none up to j and an
\* exponent or none after it, with a digit before the exponent
NumeralSplit(c, i, j) ==
    /\ AllDigits(SubSeq(c, 1, i))
    /\ (i = j \/ IsFraction(SubSeq(c, i + 1, j)))
    /\ (j = Len(c) \/ IsExponent(SubSeq(c, j + 1, Len(c))))
    /\ (i > 0 \/ j > i + 1)

\* a well-formed numeral
IsNumeral(c) == \E i \in 0 .. Len(c), j \in 0 .. Len(c) : i <= j /\ NumeralSplit(c, i, j)

\* the number a well-formed numeral writes
NumeralValue(c) ==
    LET s == CHOOSE s \in (0 .. Len(c)) \X (0 .. Len(c)) :
                s[1] <= s[2] /\ NumeralSplit(c, s[1], s[2])
        f == IF s[2] > s[1] THEN SubSeq(c, s[1] + 2, s[2]) ELSE <<>>
        x == SubSeq(c, s[2] + 1, Len(c))
        d == IF x = <<>> THEN <<>>
             ELSE IF x[2] \in {"+", "-"} THEN SubSeq(x, 3, Len(x)) ELSE SubSeq(x, 2, Len(x))
        e == IF x # <<>> /\ x[2] = "-" THEN 0 - IntOf(d, Len(d)) ELSE IntOf(d, Len(d))
    IN  Dec(IntOf(SubSeq(c, 1, s[1]) \o f, s[1] + Len(f)), e - Len(f))

\* the text begins with digits and a fractional part or none, then has an
\* exponent marker, a sign or none, and no digit after that
HasOpenExponent(t) ==
    \E k \in 1 .. Len(t) :
        /\ IsNumeral(SubSeq(t, 1, k - 1))
        /\ \A j \in 1 .. k - 1 : t[j] \notin {"e", "E"}
        /\ t[k] \in {"e", "E"}
        /\ LET n == IF k < Len(t) /\ t[k + 1] \in {"+", "-"} THEN k + 2 ELSE k + 1
           IN  n > Len(t) \/ t[n] \notin Digits

\* the characters a token covers
Covered(tok) == SubSeq(lexer.text, tok.index + 1, tok.stop)

\* C23: a number token covers a well-formed numeral, digits with one
\* fractional part or none and an exponent or none, holds the number the
\* numeral writes and is flagged json; a text whose exponent marker or sign
\* is not followed by a digit raises the syntax error "Invalid exponent"
C23_NumberTokensAreNumerals ==
    lexer.on =>
        /\ \A k \in 1 .. Len(lexer.tokens) :
                lexer.tokens[k].kind = "number" =>
                    /\ IsNumeral(Covered(lexer.tokens[k]))
                    /\ lexer.tokens[k].text = NumeralValue(Covered(lexer.tokens[k]))
                    /\ lexer.tokens[k].json = "true"
        /\ HasOpenExponent(lexer.text) =>
                (~lexer.ok /\ lexer.err = lexerError("Invalid exponent"))

\* C23 for the texts that are a well-formed numeral: one number token that
\* holds the number the text writes
C23_NumeralsAreNumberTokens ==
    (lexer.on /\ IsNumeral(lexer.text)) =>
        /\ lexer.ok /\ Len(lexer.tokens) = 1
        /\ lexer.tokens[1].kind = "number" /\ lexer.tokens[1].json = "true"
        /\ lexer.tokens[1].text = NumeralValue(lexer.text)

\* `.1E1` gave one number token of value 1
C23_Witness ==
    /\ lexer.on /\ lexer.text = <<".", "1", "E", "1">>
    /\ lexer.ok /\ Len(lexer.tokens) = 1
    /\ lexer.tokens[1].kind = "number" /\ lexer.tokens[1].text = Dec(1, 0)

\* `1e+` raised the error
C23_WitnessError ==
    /\ lexer.on /\ lexer.text = <<"1", "e", "+">>
    /\ ~lexer.ok /\ lexer.err = lexerError("Invalid exponent")

\* `1.0.` gave one number token that holds NaN
C23_WitnessTwoDots ==
    /\ lexer.on /\ lexer.text = <<"1", ".", "0", ".">>
    /\ lexer.ok /\ Len(lexer.tokens) = 1
    /\ lexer.tokens[1].kind = "number" /\ lexer.tokens[1].text = NotANumber

\* `1e` gave one number token that holds NaN and no error
C23_WitnessMarkerAtEnd ==
    /\ lexer.on /\ lexer.text = <<"1", "e">>
    /\ lexer.ok /\ Len(lexer.tokens) = 1
    /\ lexer.tokens[1].kind = "number" /\ lexer.tokens[1].text = NotANumber

----------------------------------------------------------------------------
(* Identifiers: the lexer on texts of names, dots, `(` and spaces            *)

IdentChars == {"a", "b", ".", "(", " "}

InitIdent ==
    /\ heap = CallHeap
    /\ getterFnCache = {}
    /\ compiled = NoCompile
    /\ ev = NoEval
    /\ cache = <<>>
    /\ parses = <<>>
    /\ literal = NoLiteral
    /\ binding = NoBinding
    /\ weakMap = NoWeakMap
    /\ virtual = NoVirtual
    /\ lexer \in {ToLex(t) : t \in TextsOf(IdentChars) \cup [1 .. MaxChars + 1 -> IdentChars]}
    /\ router = NoRouter

NextIdent == LexText

SpecIdent == InitIdent /\ [][NextIdent]_vars

\* the characters of an identifier run
RunChars == Letters \cup Digits \cup {"."}

\* the text begins with an identifier run that holds a dot
BeginsWithDottedRun(t) ==
    /\ t[1] \in Letters
    /\ \E k \in 2 .. Len(t) : t[k] = "." /\ \A j \in 1 .. k : t[j] \in RunChars

\* the number of characters of the run the text begins with
RunEnd(t) == CHOOSE n \in 1 .. Len(t) :
                /\ \A j \in 1 .. n : t[j] \in RunChars
                /\ n = Len(t) \/ t[n + 1] \notin RunChars

\* the index of the last dot of the run the text begins with
LastDot(t) == CHOOSE d \in 1 .. RunEnd(t) - 1 :
                /\ t[d + 1] = "."
                /\ \A j \in d + 2 .. RunEnd(t) : t[j] # "."

\* a `(` follows the run, through spaces or at once
ParenFollows(t) ==
    \E q \in RunEnd(t) + 1 .. Len(t) :
        t[q] = "(" /\ \A j \in RunEnd(t) + 1 .. q - 1 : t[j] = " "

\* the index of the `(` that follows the run
ParenIndex(t) == (CHOOSE q \in RunEnd(t) + 1 .. Len(t) :
                    t[q] = "(" /\ \A j \in RunEnd(t) + 1 .. q - 1 : t[j] = " ") - 1

\* the tokens of a run split before a `(`: object path, dot and method name
\* at their indexes, then the `(`
SplitBeforeParen(t, tokens) ==
    /\ Len(tokens) >= 4
    /\ tokens[1].kind = "ident" /\ tokens[1].index = 0
    /\ tokens[1].text = Concat(SubSeq(t, 1, LastDot(t)), 1)
    /\ tokens[2].text = "." /\ tokens[2].index = LastDot(t)
    /\ tokens[3].kind = "method" /\ tokens[3].index = LastDot(t) + 1
    /\ tokens[3].text = Concat(SubSeq(t, LastDot(t) + 2, RunEnd(t)), 1)
    /\ tokens[4].text = "(" /\ tokens[4].index = ParenIndex(t)

\* one identifier token holds the whole run
WholeRun(t, tokens) ==
    /\ Len(tokens) >= 1
    /\ tokens[1].kind = "ident" /\ tokens[1].index = 0
    /\ tokens[1].text = Concat(SubSeq(t, 1, RunEnd(t)), 1)
    /\ Len(tokens) >= 2 => tokens[2].index >= RunEnd(t)

\* C24: an identifier run with dots is one identifier token that holds the
\* whole path, unless a `(` follows it, at once or through spaces: then it is
\* three tokens, the path before the last dot, the dot and the name after
\* it, each with its index, and the next token is the `(`
C24_DottedRunSplitsBeforeParen ==
    (lexer.on /\ BeginsWithDottedRun(lexer.text)) =>
        /\ lexer.ok
        /\ IF ParenFollows(lexer.text) THEN SplitBeforeParen(lexer.text, lexer.tokens)
           ELSE WholeRun(lexer.text, lexer.tokens)

\* C24 for the runs that do not end with their last dot
C24_DottedRunWithNameSplitsBeforeParen ==
    (lexer.on /\ BeginsWithDottedRun(lexer.text)
        /\ LastDot(lexer.text) + 1 < RunEnd(lexer.text)) =>
        /\ lexer.ok
        /\ IF ParenFollows(lexer.text) THEN SplitBeforeParen(lexer.text, lexer.tokens)
           ELSE WholeRun(lexer.text, lexer.tokens)

\* `a.b (` gave a, the dot at 1, b at 2 and the `(` at 4
C24_Witness ==
    /\ lexer.on /\ lexer.text = <<"a", ".", "b", " ", "(">>
    /\ Len(lexer.tokens) = 4
    /\ lexer.tokens[1].text = "a" /\ lexer.tokens[2].index = 1
    /\ lexer.tokens[3].text = "b" /\ lexer.tokens[3].index = 2
    /\ lexer.tokens[4].index = 4

\* `a.b.a` gave one token
C24_WitnessWhole ==
    /\ lexer.on /\ lexer.text = <<"a", ".", "b", ".", "a">>
    /\ Len(lexer.tokens) = 1 /\ lexer.tokens[1].text = "a.b.a"
    /\ lexer.tokens[1].path = <<"a", "b", "a">>

\* `a.(` gave the tokens a and `(`, the dot is gone
C24_WitnessDotGone ==
    /\ lexer.on /\ lexer.text = <<"a", ".", "(">>
    /\ Len(lexer.tokens) = 2
    /\ lexer.tokens[1].text = "a" /\ lexer.tokens[2].text = "("

----------------------------------------------------------------------------
(* SpecRouter: a router, the states a and b registered at any time, and any
   sequence of go and reload *)

RouterOptions ==
    {NoOptions} \cup {Options(f, l) : f \in BOOLEAN, l \in {"none", "add", "replace"}}

RouterParams == {LeftOut} \cup {Given(o) : o \in ParamObjects}

InitRouter ==
    /\ heap = CallHeap
    /\ getterFnCache = {}
    /\ compiled = NoCompile
    /\ ev = NoEval
    /\ cache = <<>>
    /\ parses = <<>>
    /\ literal = NoLiteral
    /\ binding = NoBinding
    /\ weakMap = NoWeakMap
    /\ virtual = NoVirtual
    /\ lexer = NoLexer
    /\ router = NewRouter

NextRouter ==
    \/ \E name \in RouterStateNames \ {rootStateName} : state(name)
    \/ \E to \in RouterStateNames, params \in RouterParams, options \in RouterOptions :
           go(to, params, options)
    \/ reload

SpecRouter == InitRouter /\ [][NextRouter]_vars

\* the last operation was a go that found its state registered
WentTo == router.op = "go" /\ ~router.threw

\* the callbacks and the assignment of current in the log, in their order
Transitions ==
    LET idx == {i \in 1 .. Len(router.log) :
                   router.log[i][1] \in {"onLeave", "current", "onEnter"}}
        nth[k \in 0 .. Len(router.log)] ==
            IF k = 0 THEN 0 ELSE CHOOSE i \in idx : i > nth[k - 1] /\
                                     \A j \in idx : j > nth[k - 1] => i <= j
    IN  [k \in 1 .. Cardinality(idx) |-> router.log[nth[k]]]

\* nothing happened: no callback, no history entry, current as it was
NothingDone == router.log = <<>> /\ router.current = router.before

\* the state left its onLeave (if it has one), then current changed to the
\* state gone to, then that state's onEnter ran (if it has one)
LeftThenEntered ==
    /\ router.current.is /\ router.current.name = router.to
    /\ Transitions =
           (IF router.before.is /\ router.before.name = "a"
            THEN <<<<"onLeave", "a">>>> ELSE <<>>)
           \o <<<<"current", router.to>>>>
           \o (IF router.to \in {"a", "b"} THEN <<<<"onEnter", router.to>>>> ELSE <<>>)

\* C25: a go to the state that is current, with parameters deep-equal to the
\* current ones and without force, does nothing: current is not assigned, no
\* callback runs, no history entry is pushed or replaced; every other go runs
\* the onLeave of the state left before current changes and the onEnter of
\* the state entered after it
C25_GoToCurrentIsNoOp ==
    WentTo =>
        IF /\ router.before.is /\ router.before.name = router.to
           /\ router.params.given /\ router.params.value = router.before.params
           /\ ~(router.options.is /\ router.options.force)
        THEN NothingDone
        ELSE LeftThenEntered

\* the parameters the state gone to would carry: the given ones, and the
\* state's configured ones for the names not given
WouldCarry ==
    (IF router.params.given THEN router.params.value ELSE {})
    \cup {pr \in (IF router.to = "a" THEN {<<"p", 1>>} ELSE {}) :
             ~router.params.given \/ \A g \in router.params.value : g[1] # pr[1]}

\* C25 with the parameters compared being those the state gone to would
\* carry (the given ones over the configured ones)
C25_GoToCurrentWithSameResultIsNoOp ==
    WentTo =>
        IF /\ router.before.is /\ router.before.name = router.to
           /\ WouldCarry = router.before.params
           /\ ~(router.options.is /\ router.options.force)
        THEN NothingDone
        ELSE LeftThenEntered

\* a go to the current state a with its parameters {p: 2} did nothing
C25_Witness ==
    /\ WentTo /\ router.to = "a" /\ router.before.is /\ router.before.name = "a"
    /\ router.params = Given({<<"p", 2>>}) /\ router.before.params = {<<"p", 2>>}
    /\ router.options = Options(FALSE, "add")
    /\ router.log = <<>> /\ router.current = router.before

\* a go from a to b pushed the history entry, ran a's onLeave, changed current
\* and ran b's onEnter
C25_WitnessLeftAndEntered ==
    /\ WentTo /\ router.to = "b" /\ router.before.name = "a"
    /\ router.log = <<<<"pushState", "b">>, <<"onLeave", "a">>, <<"current", "b">>,
                      <<"onEnter", "b">>>>

\* a go to the current state a {p: 1} with no parameters did nothing
C25_WitnessNoParameters ==
    /\ WentTo /\ router.to = "a" /\ router.before.is /\ router.before.name = "a"
    /\ router.before.params = {<<"p", 1>>} /\ ~router.params.given
    /\ router.log = <<>>

----------------------------------------------------------------------------
(* Claims about path reads against a missing scope (SpecRead) *)

\* the evaluation read a path against a null or undefined scope and locals
\* do not have the first segment
ReadOfMissingScope ==
    /\ ev.on /\ compiled.src.op = "path"
    /\ ev.scope \in {<<"undef", 0>>, <<"null", 0>>}
    /\ ~(ev.locals.def /\ \E pr \in ev.locals.own : pr[1] = compiled.src.p[1])

\* C26: a path read against a null or undefined scope, locals not having the
\* first segment, gives undefined and does not throw, for paths of every
\* length, with and without runtime hooks
C26_ReadOfMissingScopeIsUndefined ==
    ReadOfMissingScope => (ev.kind = "value" /\ ev.v = <<"undef", 0>>)

\* C26 for the paths of one segment
C26_OneSegmentReadOfMissingScopeIsUndefined ==
    (ReadOfMissingScope /\ Len(compiled.src.p) = 1) =>
        (ev.kind = "value" /\ ev.v = <<"undef", 0>>)

\* `a.b` read against undefined with no hooks threw a TypeError
C26_Witness ==
    /\ ReadOfMissingScope /\ compiled.src.p = <<"a", "b">>
    /\ ev.scope = <<"undef", 0>> /\ ~HookedRead(ev.locals)
    /\ ev.kind = "throw" /\ ev.err.name = "TypeError"

\* `a.b` read against undefined through a readFieldHook gave undefined
C26_WitnessHooked ==
    /\ ReadOfMissingScope /\ compiled.src.p = <<"a", "b">>
    /\ ev.scope = <<"undef", 0>> /\ HookedRead(ev.locals)
    /\ ev.kind = "value" /\ ev.v = <<"undef", 0>>

\* `a.b.c` read against null gave null
C26_WitnessNull ==
    /\ ReadOfMissingScope /\ compiled.src.p = <<"a", "b", "c">>
    /\ ev.scope = <<"null", 0>> /\ ev.kind = "value" /\ ev.v = <<"null", 0>>

\* the path of six segments read against undefined with no locals threw
C26_WitnessSix ==
    /\ ReadOfMissingScope /\ Len(compiled.src.p) = 6 /\ ~ev.locals.def
    /\ ev.kind = "throw"

----------------------------------------------------------------------------
(* SpecAssignRead: `p = v; p`, the closure of the assignment and then the   *)
(* closure of the read called with the same scope and locals                *)

\* the identifier token of the path p
PathWord(p) ==
    IF Len(p) = 1 THEN Id(p[1])
    ELSE IF Len(p) = 2 THEN IdPath(p, "a.b", 3)
    ELSE IdPath(p, "a.b.c", 5)

AssignReadPaths == {<<"a">>, <<"a", "b">>, <<"a", "b", "c">>}

AssignRead(p, n) ==
    Text(<<PathWord(p), Assigns, NumWord(n), Pn(";"), PathWord(p)>>)

AssignReadSources == {AssignRead(p, n) : p \in AssignReadPaths, n \in {0, 1, 2}}

AssignReadLocals ==
    {UndefLocals, MkLocals({}, NoHooks), MkLocals({<<"f", Num(7)>>}, NoHooks),
     MkLocals({<<"a", Num(7)>>}, NoHooks), MkLocals({<<"a", Null>>}, NoHooks)}

InitAssignRead ==
    /\ heap \in {[o \in ObjIds |-> EmptyObj], ChainHeap(1, Num(5)),
                 ChainHeap(2, Num(5)), ChainHeap(3, Num(5))}
    /\ getterFnCache = {}
    /\ compiled = NoCompile
    /\ ev = NoEval
    /\ cache = <<>>
    /\ parses = <<>>
    /\ literal = NoLiteral
    /\ binding = NoBinding
    /\ weakMap = NoWeakMap
    /\ virtual = NoVirtual
    /\ lexer = NoLexer
    /\ router = NoRouter

NextAssignRead ==
    \/ \E src \in AssignReadSources : compileExpression(src, FALSE)
    \/ \E locals \in AssignReadLocals : Evaluate(Ref(1), locals)

SpecAssignRead == InitAssignRead /\ [][NextAssignRead]_vars

\* the path and the value of the assignment of the source
AssignedPath == compiled.src.toks[1].path

AssignedValue == compiled.src.toks[3].v

\* the assignment of the evaluated source stored its value
AssignmentDone ==
    /\ ev.on /\ compiled.src \in AssignReadSources
    /\ \E i \in 1 .. Len(ev.tr) :
           /\ ev.tr[i][1] = "write"
           /\ ev.tr[i][3] = AssignedPath[Len(AssignedPath)]
           /\ ev.tr[i][4] = AssignedValue

\* C27: after the assignment `p = v` the read `p` against the same scope
\* and locals yields v, also when locals has an own property named like the
\* first segment of p
C27_ReadYieldsTheAssigned ==
    AssignmentDone => (ev.kind = "value" /\ ev.v = AssignedValue)

\* C27 for locals that do not have the first segment of p
C27_ReadYieldsTheAssignedUnshadowed ==
    (AssignmentDone
        /\ ~(ev.locals.def /\ \E pr \in ev.locals.own : pr[1] = AssignedPath[1]))
        => (ev.kind = "value" /\ ev.v = AssignedValue)

\* `a = 1; a` with locals {a: 7} stored 1 in the scope and gave 7
C27_Witness ==
    /\ AssignmentDone /\ AssignedPath = <<"a">> /\ AssignedValue = <<"num", 1>>
    /\ ev.locals.own = {<<"a", <<"num", 7>>>>}
    /\ <<"a", <<"num", 1>>>> \in heap[1]
    /\ ev.kind = "value" /\ ev.v = <<"num", 7>>

\* `a.b = 2; a.b` with locals {f: 7} gave 2
C27_WitnessUnshadowed ==
    /\ AssignmentDone /\ AssignedPath = <<"a", "b">> /\ AssignedValue = <<"num", 2>>
    /\ ev.locals.own = {<<"f", <<"num", 7>>>>}
    /\ ev.kind = "value" /\ ev.v = <<"num", 2>>

----------------------------------------------------------------------------
(* SpecOptions: compilations of sources with and without calls, under the   *)
(* default options and under disallowFunctionCalls, with and without the    *)
(* caller's cache                                                           *)

DisallowCalls == ParserOptions(TRUE, TRUE, {})

OptionSources ==
    {Text(<<Id("f"), LParen, RParen>>),
     Text(<<N1, Plus, Id("f"), LParen, N2, RParen>>),
     Text(<<Id("f")>>)}

InitOptions ==
    /\ heap = CallHeap
    /\ getterFnCache = {}
    /\ compiled = NoCompile
    /\ ev = NoEval
    /\ cache = <<>>
    /\ parses = <<>>
    /\ literal = NoLiteral
    /\ binding = NoBinding
    /\ weakMap = NoWeakMap
    /\ virtual = NoVirtual
    /\ lexer = NoLexer
    /\ router = NoRouter

NextOptions ==
    \/ \E src \in OptionSources, options \in {DefaultOptions, DisallowCalls},
          withCache \in BOOLEAN : compileWith(src, options, withCache)
    \/ Evaluate(Ref(1), UndefLocals)

SpecOptions == InitOptions /\ [][NextOptions]_vars

\* the compiled expression has the closure of a function call in it
RECURSIVE ContainsCall(_)
ContainsCall(node) ==
    CASE node.op = "invoke" -> TRUE
      [] node.op \in {"unary", "member"} -> ContainsCall(node.a)
      [] node.op \in {"binary", "assignTo", "elem"} ->
            ContainsCall(node.a) \/ ContainsCall(node.b)
      [] node.op = "ternary" ->
            ContainsCall(node.a) \/ ContainsCall(node.b) \/ ContainsCall(node.c)
      [] node.op = "filter" ->
            ContainsCall(node.a)
                \/ \E i \in 1 .. Len(node.args) : ContainsCall(node.args[i])
      [] node.op = "statements" ->
            \E i \in 1 .. Len(node.s) : ContainsCall(node.s[i])
      [] OTHER -> FALSE

\* C28: compileExpression called with disallowFunctionCalls returns no
\* compiled expression that contains a function call, also when the cache
\* the caller passes holds the source compiled under other options
C28_DisallowedCallsNeverReturned ==
    (compiled.src \in OptionSources /\ compiled.options.disallowFunctionCalls
        /\ compiled.ok) => ~ContainsCall(compiled.expr)

\* C28 for the compilations that ran the parser
C28_DisallowedCallsNeverParsed ==
    (compiled.src \in OptionSources /\ compiled.options.disallowFunctionCalls
        /\ compiled.ok /\ compiled.parsed) => ~ContainsCall(compiled.expr)

\* `f()` compiled under disallowFunctionCalls came from the cache and its
\* evaluation called f
C28_Witness ==
    /\ compiled.src = Text(<<Id("f"), LParen, RParen>>)
    /\ compiled.options.disallowFunctionCalls /\ compiled.withCache
    /\ ~compiled.parsed /\ compiled.ok /\ compiled.expr.op = "invoke"
    /\ ev.on /\ \E i \in 1 .. Len(ev.tr) : ev.tr[i][1] = "call"

\* `f()` compiled under disallowFunctionCalls with an empty cache threw
C28_WitnessRejected ==
    /\ compiled.src = Text(<<Id("f"), LParen, RParen>>)
    /\ compiled.options.disallowFunctionCalls /\ compiled.withCache
    /\ compiled.parsed /\ ~compiled.ok /\ compiled.err # NoErr

----------------------------------------------------------------------------
(* SpecReceiver: calls `r.m(args)` and `r[i](args)` whose receiver and      *)
(* arguments leave an event in the trace each time they are evaluated       *)

\* a call, the event one evaluation of its receiver leaves (a read or a
\* write of a name of the scope), whether it is a field call, and the values
\* its arguments assign to `a`
ReceiverCase(words, kind, key, field, args) ==
    [key |-> key, kind |-> kind, field |-> field, src |-> Text(words), args |-> args]

ReceiverCases ==
    {ReceiverCase(<<Id("o"), Pn("."), NameW("m"), LParen, Id("a"), Assigns, N1,
                    Pn(","), Id("a"), Assigns, N2, RParen>>,
                  "read", "o", TRUE, <<Num(1), Num(2)>>),
     ReceiverCase(<<Id("n"), Pn("."), NameW("m"), LParen, RParen>>,
                  "read", "n", TRUE, <<>>),
     ReceiverCase(<<Id("o"), Pn("["), StrW("m", "'m'"), Pn("]"), LParen, Id("a"),
                    Assigns, N1, RParen>>,
                  "read", "o", FALSE, <<Num(1)>>),
     ReceiverCase(<<LParen, Id("n"), Assigns, N0, RParen, Pn("."), Id("m"), LParen,
                    Id("a"), Assigns, N1, RParen>>,
                  "write", "n", TRUE, <<Num(1)>>),
     ReceiverCase(<<LParen, Id("n"), Assigns, N1, RParen, Pn("."), Id("m"), LParen,
                    RParen>>,
                  "write", "n", TRUE, <<>>),
     ReceiverCase(<<LParen, Id("n"), Assigns, N1, RParen, Pn("["),
                    StrW("m", "'m'"), Pn("]"), LParen, RParen>>,
                  "write", "n", FALSE, <<>>)}

ReceiverSources == {c.src : c \in ReceiverCases}

InitReceiver ==
    /\ heap = CallHeap
    /\ getterFnCache = {}
    /\ compiled = NoCompile
    /\ ev = NoEval
    /\ cache = <<>>
    /\ parses = <<>>
    /\ literal = NoLiteral
    /\ binding = NoBinding
    /\ weakMap = NoWeakMap
    /\ virtual = NoVirtual
    /\ lexer = NoLexer
    /\ router = NoRouter

NextReceiver ==
    \/ \E src \in ReceiverSources : compileExpression(src, FALSE)
    \/ Evaluate(Ref(1), UndefLocals)

SpecReceiver == InitReceiver /\ [][NextReceiver]_vars

\* the case of the compiled source
TheCall == CHOOSE c \in ReceiverCases : c.src = compiled.src

\* a call of ReceiverCases was evaluated
CallEvaluated == ev.on /\ compiled.src \in ReceiverSources

\* the events the evaluations of the receiver left
ReceiverEvents ==
    {i \in 1 .. Len(ev.tr) :
        /\ ev.tr[i][1] = TheCall.kind
        /\ ev.tr[i][2] = <<"obj", 1>>
        /\ ev.tr[i][3] = TheCall.key}

\* the events the evaluations of the arguments left
ArgumentEvents ==
    {i \in 1 .. Len(ev.tr) : ev.tr[i][1] = "write" /\ ev.tr[i][3] = "a"}

\* the arguments were evaluated once each, from left to right, before the
\* target was invoked
ArgumentsOnceInOrder ==
    /\ Cardinality(ArgumentEvents) = Len(TheCall.args)
    /\ \A k \in 1 .. Len(TheCall.args) :
           \E i \in ArgumentEvents :
               /\ Cardinality({j \in ArgumentEvents : j < i}) = k - 1
               /\ ev.tr[i][4] = TheCall.args[k]
    /\ \A i \in ArgumentEvents, c \in 1 .. Len(ev.tr) :
           ev.tr[c][1] = "call" => i < c

\* C29: in one evaluation of `r.m(args)` or `r[i](args)` the receiver r is
\* evaluated once, whatever it yields, and each argument is evaluated once,
\* from left to right, before the target is invoked
C29_ReceiverEvaluatedOnce ==
    CallEvaluated =>
        /\ Cardinality(ReceiverEvents) = 1
        /\ ArgumentsOnceInOrder

\* the receiver yielded a value that is not falsy
ReceiverTruthy ==
    \A i \in ReceiverEvents :
        ev.tr[i][4][1] = "obj" \/ (ev.tr[i][4][1] = "num" /\ ev.tr[i][4][2] # 0)

\* C29 for the field calls on a receiver that is not falsy, and the
\* arguments of every call
C29_TruthyFieldReceiverEvaluatedOnce ==
    CallEvaluated =>
        /\ (TheCall.field /\ ReceiverTruthy) => Cardinality(ReceiverEvents) = 1
        /\ ArgumentsOnceInOrder

\* `(n = 0).m(a = 1)` assigned n twice, then a, then called
C29_Witness ==
    /\ CallEvaluated /\ TheCall.kind = "write" /\ TheCall.args = <<<<"num", 1>>>>
    /\ ev.kind = "value"
    /\ Cardinality(ReceiverEvents) = 2
    /\ \E c \in 1 .. Len(ev.tr) : ev.tr[c][1] = "call"

\* `o['m'](a = 1)` read o twice and called o.m
C29_WitnessIndex ==
    /\ CallEvaluated /\ TheCall.kind = "read" /\ ~TheCall.field
    /\ ev.kind = "value" /\ ev.v = <<"num", 7>>
    /\ Cardinality(ReceiverEvents) = 2

\* `o.m(a = 1, a = 2)` read o once, assigned 1 and 2 and called o.m
C29_WitnessOnce ==
    /\ CallEvaluated /\ TheCall.args = <<<<"num", 1>>, <<"num", 2>>>>
    /\ ev.kind = "value" /\ ev.v = <<"num", 7>>
    /\ Cardinality(ReceiverEvents) = 1
    /\ <<"a", <<"num", 2>>>> \in heap[1]


====
